---- MODULE Spec2Model ----
(***************************************************************************)
(* PaperBuddy: the state normalizer, the exam payload builder and the      *)
(* handlers of the local-storage variant (src/unnamed/part_006) and of     *)
(* the remote variant (src/unnamed/part_007).                              *)
(*                                                                         *)
(* JavaScript values are modelled as tagged records, strings as sequences  *)
(* of one-character strings, numbers as integers extended with NaN and     *)
(* the two infinities.  Only integer numerals occur in the inputs.         *)
(***************************************************************************)
EXTENDS Integers, Sequences, FiniteSets, TLC

(***************************************************************************)
(* Bounds of the model.                                                    *)
(***************************************************************************)
MaxSubjects == 2
MaxExams == 2
MaxDraws == 2
MaxCalls == 1
MaxEntries == 3
MaxRecordings == 2
MaxPomodoros == 1

(***************************************************************************)
(* Strings.                                                                *)
(***************************************************************************)
DigitChars == <<"0", "1", "2", "3", "4", "5", "6", "7", "8", "9">>

IsDigit(c) == \E d \in 1..Len(DigitChars) : DigitChars[d] = c

DigitVal(c) == (CHOOSE d \in 1..Len(DigitChars) : DigitChars[d] = c) - 1

IsWhitespace(c) == c = " "

RECURSIVE TrimStart(_)
TrimStart(s) ==
    IF s = <<>> THEN <<>>
    ELSE IF IsWhitespace(Head(s)) THEN TrimStart(Tail(s))
    ELSE s

RECURSIVE TrimEnd(_)
TrimEnd(s) ==
    IF s = <<>> THEN <<>>
    ELSE IF IsWhitespace(s[Len(s)]) THEN TrimEnd(SubSeq(s, 1, Len(s) - 1))
    ELSE s

\* String.prototype.trim
Trim(s) == TrimEnd(TrimStart(s))

AllDigits(s) == s # <<>> /\ \A i \in 1..Len(s) : IsDigit(s[i])

RECURSIVE ParseDigits(_)
ParseDigits(s) ==
    IF s = <<>> THEN 0
    ELSE 10 * ParseDigits(SubSeq(s, 1, Len(s) - 1)) + DigitVal(s[Len(s)])

RECURSIVE NatToString(_)
NatToString(n) ==
    IF n < 10 THEN <<DigitChars[n + 1]>>
    ELSE NatToString(n \div 10) \o <<DigitChars[(n % 10) + 1]>>

IntToString(i) == IF i < 0 THEN <<"-">> \o NatToString(0 - i) ELSE NatToString(i)

RECURSIVE Pow10(_)
Pow10(e) == IF e = 0 THEN 1 ELSE 10 * Pow10(e - 1)

IndexOf(s, c) ==
    IF \E i \in 1..Len(s) : s[i] = c
    THEN CHOOSE i \in 1..Len(s) : s[i] = c /\ \A j \in 1..(i - 1) : s[j] # c
    ELSE 0

(***************************************************************************)
(* Numbers: IEEE doubles restricted to the integers, NaN and +-Infinity.   *)
(***************************************************************************)
Fin(i) == [k |-> "fin", v |-> i]
NaN == [k |-> "nan", v |-> 0]
PosInf == [k |-> "inf", v |-> 1]
NegInf == [k |-> "inf", v |-> -1]

\* Number.isFinite
NumIsFinite(x) == x.k = "fin"

\* a + b
NumAdd(a, b) ==
    IF a.k = "nan" \/ b.k = "nan" THEN NaN
    ELSE IF a.k = "inf" /\ b.k = "inf" THEN (IF a.v = b.v THEN a ELSE NaN)
    ELSE IF a.k = "inf" THEN a
    ELSE IF b.k = "inf" THEN b
    ELSE Fin(a.v + b.v)

\* a <= b on non-NaN numbers
NumLeq(a, b) ==
    IF a.k = "inf" THEN (a.v = -1 \/ b = a)
    ELSE IF b.k = "inf" THEN b.v = 1
    ELSE a.v <= b.v

\* Math.max(a, b)
NumMax(a, b) ==
    IF a.k = "nan" \/ b.k = "nan" THEN NaN
    ELSE IF NumLeq(a, b) THEN b ELSE a

\* Math.min(a, b)
NumMin(a, b) ==
    IF a.k = "nan" \/ b.k = "nan" THEN NaN
    ELSE IF NumLeq(a, b) THEN a ELSE b

S_Infinity == <<"I", "n", "f", "i", "n", "i", "t", "y">>
S_NaN == <<"N", "a", "N">>

\* Number.prototype.toString
NumberToString(x) ==
    IF x.k = "nan" THEN S_NaN
    ELSE IF x.k = "inf" THEN (IF x.v = 1 THEN S_Infinity ELSE <<"-">> \o S_Infinity)
    ELSE IntToString(x.v)

\* The value of an unsigned decimal numeral with mantissa digits mant and
\* exponent digits ex (empty when there is no exponent part).
NumeralValue(mant, ex) ==
    IF ParseDigits(mant) = 0 THEN Fin(0)
    ELSE IF ParseDigits(ex) > 308 THEN PosInf   \* beyond the largest finite double
    ELSE Fin(ParseDigits(mant) * Pow10(ParseDigits(ex)))

\* An unsigned numeral: digits, optionally followed by "e" and digits; e is the
\* position of the "e", 0 when there is none.  NaN when the text is no numeral.
UnsignedValue(u, e) ==
    IF e = 0 THEN (IF AllDigits(u) THEN NumeralValue(u, <<>>) ELSE NaN)
    ELSE IF AllDigits(SubSeq(u, 1, e - 1)) /\ AllDigits(SubSeq(u, e + 1, Len(u)))
    THEN NumeralValue(SubSeq(u, 1, e - 1), SubSeq(u, e + 1, Len(u)))
    ELSE NaN

NumNeg(x) ==
    IF x.k = "nan" THEN NaN
    ELSE IF x.k = "inf" THEN [k |-> "inf", v |-> 0 - x.v]
    ELSE Fin(0 - x.v)

\* the text after an optional sign
Unsigned(t) == IF Head(t) \in {"-", "+"} THEN Tail(t) ELSE t

Magnitude(u) == IF u = S_Infinity THEN PosInf ELSE UnsignedValue(u, IndexOf(u, "e"))

\* StringToNumber of a trimmed string
TrimmedToNumber(t) ==
    IF t = <<>> THEN Fin(0)
    ELSE IF Head(t) = "-" THEN NumNeg(Magnitude(Unsigned(t)))
    ELSE Magnitude(Unsigned(t))

\* Number(string): surrounding whitespace is ignored, the empty string is 0.
StringToNumber(s) == TrimmedToNumber(Trim(s))

(***************************************************************************)
(* JavaScript values.  An object is a record of its own properties; a      *)
(* property that is not there reads as undefined.                          *)
(***************************************************************************)
Undef == [t |-> "undef"]
Null == [t |-> "null"]
Bool(b) == [t |-> "bool", b |-> b]
Num(n) == [t |-> "num", n |-> n]
Str(s) == [t |-> "str", s |-> s]
Arr(a) == [t |-> "arr", a |-> a]
Obj(f) == [t |-> "obj", f |-> f]

\* typeof v
TypeOf(v) ==
    CASE v.t = "undef" -> "undefined"
      [] v.t = "bool" -> "boolean"
      [] v.t = "num" -> "number"
      [] v.t = "str" -> "string"
      [] OTHER -> "object"

\* Array.isArray
IsArray(v) == v.t = "arr"

\* v used as a condition
Truthy(v) ==
    CASE v.t = "undef" -> FALSE
      [] v.t = "null" -> FALSE
      [] v.t = "bool" -> v.b
      [] v.t = "num" -> v.n.k # "nan" /\ v.n # Fin(0)
      [] v.t = "str" -> v.s # <<>>
      [] OTHER -> TRUE

\* raw.key; reading a property of null or undefined throws a TypeError, which no
\* caller catches: the operator has no value there
Get(v, key) ==
    CASE v.t = "obj" /\ key \in DOMAIN v.f -> v.f[key]
      [] v.t \notin {"undef", "null"} /\ ~(v.t = "obj" /\ key \in DOMAIN v.f) -> Undef

\* a ?? b
Coalesce(a, b) == IF a.t = "undef" \/ a.t = "null" THEN b ELSE a

S_ObjectObject ==
    <<"[", "o", "b", "j", "e", "c", "t", " ", "O", "b", "j", "e", "c", "t", "]">>
S_true == <<"t", "r", "u", "e">>
S_false == <<"f", "a", "l", "s", "e">>

\* String(v), as Number(v) applies it to an array or an object; JoinFrom is
\* Array.prototype.join(",") from the 1-based position i on
RECURSIVE JsToString(_), JoinFrom(_, _)
JsToString(v) ==
    CASE v.t = "undef" -> <<"u", "n", "d", "e", "f", "i", "n", "e", "d">>
      [] v.t = "null" -> <<"n", "u", "l", "l">>
      [] v.t = "bool" -> (IF v.b THEN S_true ELSE S_false)
      [] v.t = "num" -> NumberToString(v.n)
      [] v.t = "str" -> v.s
      [] v.t = "obj" -> S_ObjectObject
      [] v.t = "arr" -> JoinFrom(v.a, 1)

JoinFrom(a, i) ==
    IF i > Len(a) THEN <<>>
    ELSE (IF i > 1 THEN <<",">> ELSE <<>>)
         \o (IF a[i].t \in {"undef", "null"} THEN <<>> ELSE JsToString(a[i]))
         \o JoinFrom(a, i + 1)

\* Number(v)
JsNumber(v) ==
    CASE v.t = "undef" -> NaN
      [] v.t = "null" -> Fin(0)
      [] v.t = "bool" -> (IF v.b THEN Fin(1) ELSE Fin(0))
      [] v.t = "num" -> v.n
      [] OTHER -> StringToNumber(IF v.t = "str" THEN v.s ELSE JsToString(v))

\* typeof v === "string" && v.trim().length > 0
IsNonBlankString(v) == TypeOf(v) = "string" /\ Len(Trim(v.s)) > 0

(***************************************************************************)
(* Identifiers.  createId draws from the platform's random source; the     *)
(* n-th draw is modelled as the token "u" n, distinct for distinct n.      *)
(***************************************************************************)
randomUUID(n) == <<"u">> \o NatToString(n)

S_subject == <<"s", "u", "b", "j", "e", "c", "t">>
S_exam == <<"e", "x", "a", "m">>

createId(prefix, n) == prefix \o <<"-">> \o randomUUID(n)

(***************************************************************************)
(* The validators.                                                         *)
(***************************************************************************)
isValidExam(raw) ==
    /\ Truthy(raw)
    /\ TypeOf(raw) = "object"
    /\ IsNonBlankString(Get(raw, "id"))
    /\ IsNonBlankString(Get(raw, "paper"))
    /\ TypeOf(Get(raw, "mcq")) = "number"
    /\ TypeOf(Get(raw, "essay")) = "number"
    /\ TypeOf(Get(raw, "total")) = "number"
    /\ TypeOf(Get(raw, "completion")) = "number"

isValidSubject(raw) ==
    /\ Truthy(raw)
    /\ TypeOf(raw) = "object"
    /\ IsNonBlankString(Get(raw, "id"))
    /\ IsNonBlankString(Get(raw, "name"))
    /\ IsArray(Get(raw, "exams"))
    /\ \A i \in 1..Len(Get(raw, "exams").a) : isValidExam(Get(raw, "exams").a[i])

isValidAppState(raw) ==
    IF ~Truthy(raw) \/ TypeOf(raw) # "object" \/ IsArray(raw) THEN FALSE
    ELSE IF ~IsArray(Get(raw, "subjects")) \/ Len(Get(raw, "subjects").a) = 0 THEN FALSE
    ELSE IF TypeOf(Get(raw, "activeSubjectId")) # "string" THEN FALSE
    ELSE LET subjects == Get(raw, "subjects").a IN
         IF ~(\A i \in 1..Len(subjects) : isValidSubject(subjects[i])) THEN FALSE
         ELSE \E i \in 1..Len(subjects) :
                 Get(subjects[i], "id") = Get(raw, "activeSubjectId")

(***************************************************************************)
(* The default state.                                                      *)
(***************************************************************************)
S_Physics == <<"P", "h", "y", "s", "i", "c", "s">>
S_Paper == <<"P", "a", "p", "e", "r", " ">>
S_Subject == <<"S", "u", "b", "j", "e", "c", "t", " ">>

Exam(id, paper, mcq, essay, total, completion) ==
    Obj([id |-> Str(id), paper |-> Str(paper), mcq |-> Num(mcq), essay |-> Num(essay),
         total |-> Num(total), completion |-> Num(completion)])

Subject(id, name, exams) ==
    Obj([id |-> Str(id), name |-> Str(name), exams |-> Arr(exams)])

AppState(subjects, activeSubjectId) ==
    Obj([subjects |-> Arr(subjects), activeSubjectId |-> Str(activeSubjectId)])

DEFAULT_EXAMS ==
    << Exam(<<"e", "x", "a", "m", "-", "1">>,
            <<"2", "0", "2", "5", " ", "S", "2", " ", "M", "A", "I", "N", " ", "P", "A", "P", "E", "R", " ", "0", "3">>,
            Fin(15), Fin(0), Fin(15), Fin(96)),
       Exam(<<"e", "x", "a", "m", "-", "2">>,
            <<"2", "0", "2", "5", " ", "F", "I", "N", "A", "L", " ", "P", "A", "P", "E", "R", " ", "0", "2">>,
            Fin(8), Fin(1), Fin(9), Fin(82)),
       Exam(<<"e", "x", "a", "m", "-", "3">>,
            <<"2", "0", "2", "5", " ", "F", "I", "N", "A", "L", " ", "P", "A", "P", "E", "R", " ", "0", "4">>,
            Fin(13), Fin(1), Fin(14), Fin(88)),
       Exam(<<"e", "x", "a", "m", "-", "4">>,
            <<"2", "0", "2", "5", " ", "F", "I", "N", "A", "L", " ", "P", "A", "P", "E", "R", " ", "0", "5">>,
            Fin(12), Fin(0), Fin(12), Fin(74)) >>

\* createDefaultState, with n the next draw of the random source
createDefaultState(n) ==
    LET subjectId == createId(S_subject, n) IN
    AppState(<<Subject(subjectId, S_Physics, DEFAULT_EXAMS)>>, subjectId)

(***************************************************************************)
(* The sanitizers.  index is the 0-based position in the array; n is the   *)
(* next draw of the random source.                                         *)
(***************************************************************************)
Clamp(x) == NumMin(Fin(100), NumMax(Fin(0), x))

\* Number.isFinite(x) ? x : 0
FiniteOrZero(x) == IF NumIsFinite(x) THEN x ELSE Fin(0)

\* an exam whose total is 0 whenever the number read for it is not finite
sanitizedExam_TotalZero(raw, index, n, mcq, essay, totalValue, completionValue) ==
    Exam(IF IsNonBlankString(Get(raw, "id")) THEN Get(raw, "id").s ELSE createId(S_exam, n),
         IF IsNonBlankString(Get(raw, "paper")) THEN Trim(Get(raw, "paper").s)
         ELSE S_Paper \o NatToString(index + 1),
         mcq,
         essay,
         FiniteOrZero(totalValue),
         IF NumIsFinite(completionValue) THEN Clamp(completionValue) ELSE Fin(0))

\* lines 200-216: the exam made of the numbers read at lines 195-198
sanitizedExam(raw, index, n, mcq, essay, totalValue, completionValue) ==
    Exam(IF IsNonBlankString(Get(raw, "id")) THEN Get(raw, "id").s ELSE createId(S_exam, n),
         IF IsNonBlankString(Get(raw, "paper")) THEN Trim(Get(raw, "paper").s)
         ELSE S_Paper \o NatToString(index + 1),
         mcq,
         essay,
         IF NumIsFinite(totalValue) THEN totalValue ELSE NumAdd(mcq, essay),
         IF NumIsFinite(completionValue) THEN Clamp(completionValue) ELSE Fin(0))

\* lines 197-201: totalValue, read once mcqValue and essayValue are known
sanitizeExamValues(raw, index, n, mcqValue, essayValue) ==
    sanitizedExam(raw, index, n, FiniteOrZero(mcqValue), FiniteOrZero(essayValue),
                  JsNumber(Coalesce(Get(raw, "total"), Num(NumAdd(mcqValue, essayValue)))),
                  JsNumber(Coalesce(Get(raw, "completion"), Num(Fin(0)))))

sanitizeExam(raw, index, n) ==
    IF ~Truthy(raw) \/ TypeOf(raw) # "object" THEN Null
    ELSE sanitizeExamValues(raw, index, n,
                            JsNumber(Coalesce(Get(raw, "mcq"), Num(Fin(0)))),
                            JsNumber(Coalesce(Get(raw, "essay"), Num(Fin(0)))))

\* whether sanitizing raw calls createId
DrawsId(raw) ==
    Truthy(raw) /\ TypeOf(raw) = "object" /\ ~IsNonBlankString(Get(raw, "id"))

\* a filter that keeps every element, null included
KeepIfObject_KeepsNull(element, rest) == [out |-> <<element>> \o rest.out, n |-> rest.n]

\* .filter(Boolean) on one element, followed by the rest of the array
KeepIfObject(element, rest) ==
    [out |-> (IF Truthy(element) THEN <<element>> ELSE <<>>) \o rest.out, n |-> rest.n]

\* examsArray.map(sanitizeExam).filter(Boolean), from the 1-based position i on;
\* the result is [out, n]: the exams kept and the next draw of the random source
RECURSIVE sanitizeExams(_, _, _)
sanitizeExams(examsArray, i, n) ==
    IF i > Len(examsArray) THEN [out |-> <<>>, n |-> n]
    ELSE KeepIfObject(sanitizeExam(examsArray[i], i - 1, n),
                      sanitizeExams(examsArray, i + 1,
                                    IF DrawsId(examsArray[i]) THEN n + 1 ELSE n))

\* a subject that keeps every string id, a blank one included
sanitizedSubject_KeepsAnyStringId(raw, index, n, exams) ==
    [val |-> Subject(IF TypeOf(Get(raw, "id")) = "string" THEN Get(raw, "id").s
                     ELSE createId(S_subject, n),
                     IF IsNonBlankString(Get(raw, "name")) THEN Trim(Get(raw, "name").s)
                     ELSE S_Subject \o NatToString(index + 1),
                     exams.out),
     n |-> exams.n]

\* lines 231-235: the subject returned, given its sanitized exams
sanitizedSubject(raw, index, n, exams) ==
    [val |-> Subject(IF IsNonBlankString(Get(raw, "id")) THEN Get(raw, "id").s
                     ELSE createId(S_subject, n),
                     IF IsNonBlankString(Get(raw, "name")) THEN Trim(Get(raw, "name").s)
                     ELSE S_Subject \o NatToString(index + 1),
                     exams.out),
     n |-> exams.n]

\* the result is [val, n]: the subject or null, and the next draw of the random source
sanitizeSubject(raw, index, n) ==
    IF ~Truthy(raw) \/ TypeOf(raw) # "object" THEN [val |-> Null, n |-> n]
    ELSE sanitizedSubject(raw, index, n,
                          sanitizeExams(IF IsArray(Get(raw, "exams")) THEN Get(raw, "exams").a
                                        ELSE <<>>,
                                        1, IF DrawsId(raw) THEN n + 1 ELSE n))

\* if (sanitized) sanitizedSubjects.push(sanitized), followed by the rest of the array
PushIfObject(sanitized, rest) ==
    [out |-> (IF Truthy(sanitized.val) THEN <<sanitized.val>> ELSE <<>>) \o rest.out,
     n |-> rest.n]

\* candidate.subjects.forEach(...), from the 1-based position i on: the sanitized
\* subjects that are not null; sanitizeRest continues after element i was sanitized
RECURSIVE sanitizeSubjects(_, _, _), sanitizeRest(_, _, _)
sanitizeSubjects(subjects, i, n) ==
    IF i > Len(subjects) THEN [out |-> <<>>, n |-> n]
    ELSE sanitizeRest(subjects, i, sanitizeSubject(subjects[i], i - 1, n))

sanitizeRest(subjects, i, sanitized) ==
    PushIfObject(sanitized, sanitizeSubjects(subjects, i + 1, sanitized.n))

(***************************************************************************)
(* normalizeStoredValue.  The result is [state, same, n]: the state        *)
(* returned, whether it is the very object passed in, and the next draw    *)
(* of the random source.                                                   *)
(***************************************************************************)
\* resolveActiveSubjectId without the check that the id names a sanitized subject
resolveActiveSubjectId_Unchecked(given, sanitizedSubjects) ==
    IF IsNonBlankString(given) THEN given ELSE Get(sanitizedSubjects[1], "id")

\* a resolution that always takes the first sanitized subject
resolveActiveSubjectId_First(given, sanitizedSubjects) == Get(sanitizedSubjects[1], "id")

\* lines 258-264: the caller's activeSubjectId when it names a sanitized subject,
\* the first sanitized subject's id otherwise
resolveActiveSubjectId(given, sanitizedSubjects) ==
    LET first == Get(sanitizedSubjects[1], "id")
        activeSubjectId == IF IsNonBlankString(given) THEN given ELSE first
    IN  IF \E i \in 1..Len(sanitizedSubjects) :
              Get(sanitizedSubjects[i], "id") = activeSubjectId
        THEN activeSubjectId
        ELSE first

\* lines 254-269: the state made of the sanitized subjects
stateOfSanitized(value, n, sanitizedSubjects) ==
    IF Len(sanitizedSubjects.out) = 0
    THEN [state |-> createDefaultState(n), same |-> FALSE, n |-> n + 1]
    ELSE [state |-> Obj([subjects |-> Arr(sanitizedSubjects.out),
                         activeSubjectId |->
                            resolveActiveSubjectId(Get(value, "activeSubjectId"),
                                                   sanitizedSubjects.out)]),
          same |-> FALSE, n |-> sanitizedSubjects.n]

\* lines 273-287: the single subject "Physics" made of a bare array's exams
stateOfExams(subjectId, exams) ==
    [state |-> AppState(<<Subject(subjectId, S_Physics, exams.out)>>, subjectId),
     same |-> FALSE, n |-> exams.n]

\* lines 243-290: the branches taken when the value is not a valid state
repairStoredValue(value, n) ==
    IF Truthy(value) /\ TypeOf(value) = "object" /\ ~IsArray(value)
       /\ IsArray(Get(value, "subjects"))
    THEN stateOfSanitized(value, n, sanitizeSubjects(Get(value, "subjects").a, 1, n))
    ELSE IF IsArray(value)
    THEN stateOfExams(createId(S_subject, n), sanitizeExams(value.a, 1, n + 1))
    ELSE [state |-> createDefaultState(n), same |-> FALSE, n |-> n + 1]

\* normalizeStoredValue without the early return of a valid state
normalizeStoredValue_AlwaysRepair(value, n) == repairStoredValue(value, n)

normalizeStoredValue(value, n) ==
    IF isValidAppState(value) THEN [state |-> value, same |-> TRUE, n |-> n]
    ELSE repairStoredValue(value, n)

(***************************************************************************)
(* The payload builder.  A form is a record of strings; the result is      *)
(* null or the payload object.                                             *)
(***************************************************************************)
Payload(paper, mcq, essay, total, completion) ==
    Obj([paper |-> Str(paper), mcq |-> Num(mcq), essay |-> Num(essay),
         total |-> Num(total), completion |-> Num(completion)])

\* formPaper without the trim
formPaper_Untrimmed(form) == form.paper

\* form.paper.trim()
formPaper(form) == Trim(form.paper)

\* FloorAtZero without the Math.max
FloorAtZero_Unfloored(x) == IF NumIsFinite(x) THEN x ELSE Fin(0)

\* Number.isFinite(x) ? Math.max(0, x) : 0
FloorAtZero(x) == IF NumIsFinite(x) THEN NumMax(Fin(0), x) ELSE Fin(0)

\* lines 326-339: the payload made of the numbers read at lines 321-324
builtPayload(paper, mcq, essay, totalInput, completionValue) ==
    Payload(paper, mcq, essay,
            NumMax(Fin(0), IF NumIsFinite(totalInput) THEN totalInput ELSE NumAdd(mcq, essay)),
            IF NumIsFinite(completionValue) THEN Clamp(completionValue) ELSE Fin(0))

\* lines 323-327: totalInput, read once mcqValue and essayValue are known
payloadOfValues(form, paper, mcqValue, essayValue) ==
    builtPayload(paper, FloorAtZero(mcqValue), FloorAtZero(essayValue),
                 IF form.total # <<>> THEN StringToNumber(form.total)
                 ELSE NumAdd(mcqValue, essayValue),
                 StringToNumber(form.completion))

\* the local variant (part_006)
prepareExamPayload(form) ==
    IF formPaper(form) = <<>> THEN Null
    ELSE payloadOfValues(form, formPaper(form), StringToNumber(form.mcq),
                         StringToNumber(form.essay))

\* lines 201-214 of the remote variant
builtPayload_remote(paper, mcq, essay, completionValue) ==
    Payload(paper, mcq, essay, NumMax(Fin(0), NumAdd(mcq, essay)),
            IF NumIsFinite(completionValue)
            THEN NumMin(Fin(100), NumMax(Fin(0), completionValue))
            ELSE Fin(0))

\* Number.isFinite(x) ? Math.max(0, x) : 0 (remote variant)
FloorAtZero_remote(x) == IF NumIsFinite(x) THEN NumMax(Fin(0), x) ELSE Fin(0)

\* the remote variant (part_007), whose form has no total field
prepareExamPayload_remote(form) ==
    IF Trim(form.paper) = <<>> THEN Null
    ELSE builtPayload_remote(Trim(form.paper), FloorAtZero_remote(StringToNumber(form.mcq)),
                             FloorAtZero_remote(StringToNumber(form.essay)),
                             StringToNumber(form.completion))

\* createEmptyForm (local variant)
createEmptyForm == [paper |-> <<>>, mcq |-> <<>>, essay |-> <<>>, total |-> <<>>,
                    completion |-> <<>>]

\* createEmptyForm (remote variant)
createEmptyForm_remote == [paper |-> <<>>, mcq |-> <<>>, essay |-> <<>>, completion |-> <<>>]

\* the remote form made of the same entries as a local form
RemoteForm(form) == [paper |-> form.paper, mcq |-> form.mcq, essay |-> form.essay,
                     completion |-> form.completion]

(***************************************************************************)
(* JSON text and the storage hook (useLocalStorage).  A text is kept as    *)
(* the document it spells: the shape of a value with every number written  *)
(* as its numeral, or a text that is no JSON, or the empty text.           *)
(***************************************************************************)
\* the SyntaxError of JSON.parse, as the outcome of the call
Thrown == [t |-> "throw"]

\* getItem for a key that is not stored
Absent == [t |-> "absent"]

EmptyText == [t |-> "empty"]
Garbage == [t |-> "garbage"]
Numeral(lit) == [t |-> "num", lit |-> lit]

\* the number a JSON numeral denotes; NaN stands for a numeral outside the grammar
JsonNumber(lit) ==
    IF lit = <<>> THEN NaN
    ELSE IF Head(lit) = "-" THEN
        (IF Tail(lit) = <<>> THEN NaN
         ELSE NumNeg(UnsignedValue(Tail(lit), IndexOf(Tail(lit), "e"))))
    ELSE UnsignedValue(lit, IndexOf(lit, "e"))

RECURSIVE JsonWellFormed(_)
JsonWellFormed(doc) ==
    CASE doc.t \in {"garbage", "empty", "absent"} -> FALSE
      [] doc.t = "num" -> JsonNumber(doc.lit) # NaN
      [] doc.t = "arr" -> \A i \in 1..Len(doc.a) : JsonWellFormed(doc.a[i])
      [] doc.t = "obj" -> \A k \in DOMAIN doc.f : JsonWellFormed(doc.f[k])
      [] OTHER -> TRUE

RECURSIVE JsonValue(_)
JsonValue(doc) ==
    CASE doc.t = "num" -> Num(JsonNumber(doc.lit))
      [] doc.t = "arr" -> Arr([i \in 1..Len(doc.a) |-> JsonValue(doc.a[i])])
      [] doc.t = "obj" -> Obj([k \in DOMAIN doc.f |-> JsonValue(doc.f[k])])
      [] OTHER -> doc

\* JSON.parse(text)
JSON_parse(doc) == IF JsonWellFormed(doc) THEN JsonValue(doc) ELSE Thrown

\* an array element as JSON.stringify writes it: undefined is written as null
ElementToWrite(v) == IF v.t = "undef" THEN Null ELSE v

\* JSON.stringify(value): a number that is not finite is written as null, a
\* property holding undefined is left out, and undefined itself gives no JSON
RECURSIVE JSON_stringify(_)
JSON_stringify(v) ==
    CASE v.t = "undef" -> Garbage
      [] v.t = "num" -> IF NumIsFinite(v.n) THEN Numeral(IntToString(v.n.v)) ELSE Null
      [] v.t = "arr" -> Arr([i \in 1..Len(v.a) |-> JSON_stringify(ElementToWrite(v.a[i]))])
      [] v.t = "obj" -> Obj([k \in {key \in DOMAIN v.f : v.f[key].t # "undef"} |->
                                JSON_stringify(v.f[k])])
      [] OTHER -> v

\* the catch block of readValue
CatchParse(parsed, fallback) == IF parsed = Thrown THEN fallback ELSE parsed

\* readValue without the try/catch around JSON.parse
readValue_Uncaught(item, fallback) ==
    IF item = Absent \/ item = EmptyText THEN fallback ELSE JSON_parse(item)

\* readValue(key, fallback), item being what getItem(key) returns
readValue(item, fallback) ==
    IF item = Absent \/ item = EmptyText THEN fallback
    ELSE CatchParse(JSON_parse(item), fallback)

(***************************************************************************)
(* The App component of the local variant: the pure parts of its handlers. *)
(***************************************************************************)
\* { ...a, ...b }
Spread(a, b) ==
    Obj([k \in DOMAIN a.f \cup DOMAIN b.f |-> IF k \in DOMAIN b.f THEN b.f[k] ELSE a.f[k]])

\* { ...a, [key]: v }
With(a, key, v) == Obj([k \in DOMAIN a.f \cup {key} |-> IF k = key THEN v ELSE a.f[k]])

\* { ...payload } for the payload prepareExamPayload returned
PayloadFields(payload) == IF payload.t = "obj" THEN payload ELSE Obj(<<>>)

\* subjects.find((subject) => subject.id === id) ?? subjects[0]
findSubject(subjects, id) ==
    IF \E i \in 1..Len(subjects) : Get(subjects[i], "id") = id
    THEN subjects[CHOOSE i \in 1..Len(subjects) :
                      /\ Get(subjects[i], "id") = id
                      /\ \A j \in 1..(i - 1) : Get(subjects[j], "id") # id]
    ELSE IF subjects # <<>> THEN subjects[1] ELSE Undef

\* activeSubject of a render with the given normalized state
activeSubjectOf(state) ==
    findSubject(Get(state, "subjects").a, Get(state, "activeSubjectId"))

\* examToForm
examToForm(exam) ==
    [paper |-> Get(exam, "paper").s,
     mcq |-> NumberToString(Get(exam, "mcq").n),
     essay |-> NumberToString(Get(exam, "essay").n),
     total |-> NumberToString(Get(exam, "total").n),
     completion |-> NumberToString(Get(exam, "completion").n)]

\* current.subjects.map(...) of the exam handlers: examsOf[i] replaces the exams
\* of subject i when its id is the active subject's
withExamsOfActive(current, activeSubject, examsOf) ==
    With(current, "subjects",
         Arr([i \in 1..Len(Get(current, "subjects").a) |->
                 IF Get(Get(current, "subjects").a[i], "id") = Get(activeSubject, "id")
                 THEN With(Get(current, "subjects").a[i], "exams", Arr(examsOf[i]))
                 ELSE Get(current, "subjects").a[i]]))

\* subject.exams of subject i of current
examsAt(current, i) == Get(Get(current, "subjects").a[i], "exams").a

\* the updater of handleAddExam
addExam(current, activeSubject, newExam) ==
    withExamsOfActive(current, activeSubject,
                      [i \in 1..Len(Get(current, "subjects").a) |->
                          <<newExam>> \o examsAt(current, i)])

\* the updater of handleUpdateExam
updateExam(current, activeSubject, id, payload) ==
    withExamsOfActive(current, activeSubject,
                      [i \in 1..Len(Get(current, "subjects").a) |->
                          [j \in 1..Len(examsAt(current, i)) |->
                              IF Get(examsAt(current, i)[j], "id") = id
                              THEN Spread(examsAt(current, i)[j], payload)
                              ELSE examsAt(current, i)[j]]])

\* the updater of handleDeleteExam
deleteExam(current, activeSubject, id) ==
    withExamsOfActive(current, activeSubject,
                      [i \in 1..Len(Get(current, "subjects").a) |->
                          SelectSeq(examsAt(current, i), LAMBDA exam : Get(exam, "id") # id)])

\* handleSubjectSelect returns current itself in its two early returns
selectKeepsCurrent(current, subjectId) ==
    \/ Get(current, "activeSubjectId") = subjectId
    \/ ~\E i \in 1..Len(Get(current, "subjects").a) :
           Get(Get(current, "subjects").a[i], "id") = subjectId

\* the updater of handleSubjectSelect
selectSubject(current, subjectId) ==
    IF selectKeepsCurrent(current, subjectId) THEN current
    ELSE With(current, "activeSubjectId", subjectId)

(***************************************************************************)
(* Untrusted values handed to the normalizer.                              *)
(***************************************************************************)
SeqsUpTo(S, k) == UNION {[1..m -> S] : m \in 0..k}

\* elements of an exams array: two well-typed exams, a well-typed exam that
\* repeats an id and has a completion above 100, a partially typed object, an
\* object with wrongly typed fields, and null
RawExams ==
    { Exam(<<"e", "1">>, <<"P">>, Fin(1), Fin(2), Fin(3), Fin(50)),
      Exam(<<"e", "2">>, <<"R">>, Fin(4), Fin(0), Fin(9), Fin(100)),
      Exam(<<"e", "1">>, <<" ", "Q", " ">>, Fin(-1), Fin(0), Fin(0), Fin(150)),
      Obj([id |-> Str(<<" ">>), paper |-> Str(<<" ">>), mcq |-> Str(<<"7">>),
           total |-> Null, completion |-> Num(Fin(-5))]),
      Obj([paper |-> Num(Fin(5)), mcq |-> Bool(TRUE), essay |-> Arr(<<>>),
           total |-> Str(<<"x">>), completion |-> Str(<<"2", "0", "0">>)]),
      Null }

RawExamLists == SeqsUpTo(RawExams, MaxExams)

\* elements of a subjects array, before the exams are filled in
RawSubjects ==
    { Subject(<<"s", "1">>, <<"M", "a", "t", "h">>, <<>>),
      Subject(<<"s", "2">>, <<" ", "B", "i", "o", " ">>, <<>>),
      Subject(<<"s", "1">>, <<"D", "u", "p">>, <<>>),
      Obj([id |-> Num(Fin(7)), exams |-> Null]),
      Null }

RawSubjectLists == SeqsUpTo(RawSubjects, MaxSubjects)

RawActiveIds == {Undef, Str(<<"s", "1">>), Str(<<"s", "2">>), Str(<<"z">>)}

\* the subjects with the exams put into the first element when it has an exams array
WithExams(subjects, exams) ==
    IF subjects # <<>> /\ subjects[1].t = "obj" /\ IsArray(Get(subjects[1], "exams"))
    THEN [subjects EXCEPT ![1] = Obj([subjects[1].f EXCEPT !.exams = Arr(exams)])]
    ELSE subjects

RawState(subjects, exams, active) ==
    IF active = Undef THEN Obj([subjects |-> Arr(WithExams(subjects, exams))])
    ELSE Obj([subjects |-> Arr(WithExams(subjects, exams)), activeSubjectId |-> active])

RawValues ==
    {RawState(ss, es, a) : ss \in RawSubjectLists, es \in RawExamLists, a \in RawActiveIds}
    \cup {Arr(es) : es \in RawExamLists}
    \cup {Undef, Null, Num(Fin(5)), Str(<<"x">>), Obj([subjects |-> Null]),
          Obj([activeSubjectId |-> Str(<<"s", "1">>)])}

\* form entries typed by the user
PaperInputs == {<<>>, <<" ">>, <<"P">>, <<" ", "M", "1", " ">>}
McqInputs == {<<>>, <<"1", "0">>, <<"-", "5">>, <<"a", "b">>, <<"1", "e", "9", "9", "9">>}
EssayInputs == {<<>>, <<"2">>, <<"-", "3">>, <<"x">>}
TotalInputs == {<<>>, <<" ">>, <<"0">>, <<"7">>, <<"-", "4">>, <<"a">>, S_Infinity}
CompletionInputs == {<<>>, <<"5", "0">>, <<"1", "5", "0">>, <<"-", "1">>, <<"%">>}

Forms ==
    [paper : PaperInputs, mcq : McqInputs, essay : EssayInputs, total : TotalInputs,
     completion : CompletionInputs]

(***************************************************************************)
(* Dates. An instant is a whole number of seconds since 2025-01-01T00:00Z. *)
(* A Date holds an instant or, like new Date("x"), none. A timestamp is a  *)
(* text: toISOString writes the instant of a Date, and new Date(text)      *)
(* reads it back, giving an invalid Date for any other text. The getters   *)
(* and setters of Date work in the zone of the host: tz is its offset in   *)
(* seconds east of UTC, the same all year, and the calendar is the one of  *)
(* 2025, where 1 January is a Wednesday.                                   *)
(***************************************************************************)
FOCUS_DURATION == 25 * 60

BREAK_DURATION == 5 * 60

HISTORY_LIMIT_DAYS == 120

SECONDS_PER_HOUR == 60 * 60

SECONDS_PER_DAY == 24 * SECONDS_PER_HOUR

DateAt(time) == [valid |-> TRUE, time |-> time]

InvalidDate == [valid |-> FALSE, time |-> 0]

\* date.toISOString()
toISOString(date) == [t |-> "str", iso |-> date.time]

\* new Date(text)
DateOf(text) == IF "iso" \in DOMAIN text THEN DateAt(text.iso) ELSE InvalidDate

\* Number.isNaN(date.getTime())
IsInvalidDate(date) == ~date.valid

\* the number of the local calendar day of a date, 0 for 1 January 2025
LocalDay(date, tz) == (date.time + tz) \div SECONDS_PER_DAY

MonthLengths == <<31, 28, 31, 30, 31, 30, 31, 31, 30, 31, 30, 31>>

RECURSIVE MonthAndDate(_, _)
MonthAndDate(dayOfYear, month) ==
    IF dayOfYear < MonthLengths[month + 1]
    THEN [month |-> month, date |-> dayOfYear + 1]
    ELSE MonthAndDate(dayOfYear - MonthLengths[month + 1], month + 1)

getFullYear(date, tz) == 2025 + (LocalDay(date, tz) \div 365)

getMonth(date, tz) == MonthAndDate(LocalDay(date, tz) % 365, 0).month

getDate(date, tz) == MonthAndDate(LocalDay(date, tz) % 365, 0).date

getDay(date, tz) == (LocalDay(date, tz) + 3) % 7

\* date.setDate(dayOfMonth): days outside the month roll into the next or previous one
setDate(date, dayOfMonth, tz) ==
    DateAt(date.time + (dayOfMonth - getDate(date, tz)) * SECONDS_PER_DAY)

\* date.setHours(0, 0, 0, 0)
setHoursToZero(date, tz) == DateAt(date.time - ((date.time + tz) % SECONDS_PER_DAY))

\* a start of day that ignores the zone of the host
getStartOfDay_UTC(date, tz) == setHoursToZero(date, 0)

getStartOfDay(date, tz) == setHoursToZero(date, tz)

\* a comparison of the day of the month alone
isSameDay_DateOnly(a, b, tz) == getDate(a, tz) = getDate(b, tz)

isSameDay(a, b, tz) ==
    /\ getFullYear(a, tz) = getFullYear(b, tz)
    /\ getMonth(a, tz) = getMonth(b, tz)
    /\ getDate(a, tz) = getDate(b, tz)

\* day.toLocaleDateString(undefined, { weekday: "short" })
WeekdayLabels == <<"Sun", "Mon", "Tue", "Wed", "Thu", "Fri", "Sat">>

weekdayLabel(date, tz) == WeekdayLabels[getDay(date, tz) + 1]

(***************************************************************************)
(* The focus analytics of the remote variant (part_007): productivityStats *)
(* computed from the focus entries at an instant in the zone tz.            *)
(***************************************************************************)
FocusEntry(id, duration, timestamp) ==
    [id |-> id, duration |-> duration, timestamp |-> timestamp]

\* the entries whose timestamp is a date, each with its date
parsedEntries(entries) ==
    LET withDate == [i \in 1..Len(entries) |->
                        [id |-> entries[i].id, duration |-> entries[i].duration,
                         timestamp |-> entries[i].timestamp,
                         date |-> DateOf(entries[i].timestamp)]]
        Keep(entry) == ~IsInvalidDate(entry.date)
    IN SelectSeq(withDate, Keep)

\* entries.reduce((acc, entry) => acc + entry.duration, 0)
RECURSIVE sumDurations(_)
sumDurations(entries) ==
    IF entries = <<>> THEN Fin(0)
    ELSE NumAdd(sumDurations(SubSeq(entries, 1, Len(entries) - 1)),
                entries[Len(entries)].duration.n)

\* parsedEntries.filter((entry) => entry.date >= start)
entriesSince(entries, start) ==
    LET Keep(entry) == entry.date.time >= start.time
    IN SelectSeq(entries, Keep)

todayStartAt(instant, tz) == getStartOfDay(DateAt(instant), tz)

weekStartAt(instant, tz) ==
    setDate(todayStartAt(instant, tz), getDate(todayStartAt(instant, tz), tz) - 6, tz)

monthStartAt(instant, tz) ==
    setDate(todayStartAt(instant, tz), getDate(todayStartAt(instant, tz), tz) - 29, tz)

\* the day of the i-th round of the week loop
weekDay(weekStart, i, tz) == setDate(weekStart, getDate(weekStart, tz) + i, tz)

\* a filter that keeps every entry from the day on
entriesOfDay_Since(weekEntries, day, tz) ==
    LET Keep(entry) == entry.date.time >= day.time
    IN SelectSeq(weekEntries, Keep)

\* weekEntries.filter((entry) => isSameDay(entry.date, day))
entriesOfDay(weekEntries, day, tz) ==
    LET Keep(entry) == isSameDay(entry.date, day, tz)
    IN SelectSeq(weekEntries, Keep)

\* the bucket pushed for the entries the filter of its round kept; counted lists
\* their ids, which the code does not keep
Bucket(label, counted) ==
    [label |-> label, totalSeconds |-> sumDurations(counted),
     counted |-> [i \in 1..Len(counted) |-> counted[i].id]]

RECURSIVE weekBreakdownFrom(_, _, _, _, _)
weekBreakdownFrom(i, weekStart, todayStart, weekEntries, tz) ==
    IF i >= 7 \/ weekDay(weekStart, i, tz).time > todayStart.time THEN <<>>
    ELSE <<Bucket(weekdayLabel(weekDay(weekStart, i, tz), tz),
                  entriesOfDay(weekEntries, weekDay(weekStart, i, tz), tz))>>
         \o weekBreakdownFrom(i + 1, weekStart, todayStart, weekEntries, tz)

\* a period end one day later, which is the start of the next period
periodEndOf_Overlapping(cursor, todayStart, tz) ==
    LET periodEnd == setDate(cursor, getDate(cursor, tz) + 7, tz)
    IN IF periodEnd.time > todayStart.time THEN todayStart ELSE periodEnd

\* periodEnd: six days after the cursor, and todayStart at the latest
periodEndOf(cursor, todayStart, tz) ==
    LET periodEnd == setDate(cursor, getDate(cursor, tz) + 6, tz)
    IN IF periodEnd.time > todayStart.time THEN todayStart ELSE periodEnd

\* monthEntries.filter((entry) => entry.date >= periodStart && entry.date <= periodEnd)
entriesOfPeriod(monthEntries, periodStart, periodEnd) ==
    LET Keep(entry) ==
            entry.date.time >= periodStart.time /\ entry.date.time <= periodEnd.time
    IN SelectSeq(monthEntries, Keep)

\* `Week ${weekIndex}`
WeekLabel(weekIndex) == <<"W", "e", "e", "k", " ">> \o NatToString(weekIndex)

RECURSIVE monthBreakdownFrom(_, _, _, _, _)
monthBreakdownFrom(cursor, weekIndex, todayStart, monthEntries, tz) ==
    IF ~(cursor.time <= todayStart.time) THEN <<>>
    ELSE <<Bucket(WeekLabel(weekIndex),
                  entriesOfPeriod(monthEntries, cursor, periodEndOf(cursor, todayStart, tz)))>>
         \o monthBreakdownFrom(setDate(cursor, getDate(cursor, tz) + 7, tz), weekIndex + 1,
                               todayStart, monthEntries, tz)

statsOfWindows(dayEntries, weekEntries, monthEntries, instant, tz) ==
    [day |-> [totalSeconds |-> sumDurations(dayEntries),
              entries |-> [i \in 1..Len(dayEntries) |-> dayEntries[i].id]],
     week |-> [totalSeconds |-> sumDurations(weekEntries),
               breakdown |-> weekBreakdownFrom(0, weekStartAt(instant, tz), todayStartAt(instant, tz),
                                               weekEntries, tz)],
     month |-> [totalSeconds |-> sumDurations(monthEntries),
                breakdown |-> monthBreakdownFrom(monthStartAt(instant, tz), 1,
                                                 todayStartAt(instant, tz), monthEntries, tz)]]

\* the value of the useMemo callback when new Date() is the instant
productivityStatsAt(entries, instant, tz) ==
    statsOfWindows(entriesSince(parsedEntries(entries), todayStartAt(instant, tz)),
                   entriesSince(parsedEntries(entries), weekStartAt(instant, tz)),
                   entriesSince(parsedEntries(entries), monthStartAt(instant, tz)),
                   instant, tz)

\* the instant at which the clocks of the zone show hours:minutes on a day
InstantAt(day, hours, minutes, tz) ==
    day * SECONDS_PER_DAY + hours * SECONDS_PER_HOUR + minutes * 60 - tz

\* 1 July 2025
Today == 31 + 28 + 31 + 30 + 31 + 30

VARIABLES nStage, nValue, nResult, nAgain, pForm, pLocal, pRemote,
          app, lsItem, storedValue, rnd, dirty, lastActiveId, form, editingId, editForm,
          submitted,
          user, subjects, activeSubjectId, error, isLoading, db, calls,
          isAddingSubject, newSubjectName, confirmDialog

VARIABLES now, zone, focusDb, focusEntries, productivityStats, computedAt,
          timerOpen, sessionType, secondsLeft, isRunning, completedPomodoros, focusCalls,
          appended

normVars == <<nStage, nValue, nResult, nAgain>>

payVars == <<pForm, pLocal, pRemote>>

localVars == <<app, lsItem, storedValue, rnd, dirty, lastActiveId, form, editingId, editForm,
               submitted>>

localOnlyVars == <<lsItem, storedValue, dirty, lastActiveId>>

remoteVars == <<user, subjects, activeSubjectId, error, isLoading, db, calls>>

timerVars == <<timerOpen, sessionType, secondsLeft, isRunning, completedPomodoros, focusCalls,
               appended>>

focusVars == <<now, zone, focusDb, focusEntries, productivityStats, computedAt, timerVars>>

\* the subject form of either variant and the confirm dialog of the remote one
subjectVars == <<isAddingSubject, newSubjectName, confirmDialog>>

vars == <<normVars, payVars, localVars, remoteVars, focusVars, subjectVars>>

NoResult == [state |-> Undef, same |-> FALSE, n |-> 0]

NormIdle == nStage = "idle" /\ nValue = Undef /\ nResult = NoResult /\ nAgain = NoResult

PayIdle == pForm = createEmptyForm /\ pLocal = Undef /\ pRemote = Undef

\* the subject form is closed and empty, no dialog is shown
SubjectFormIdle == isAddingSubject = FALSE /\ newSubjectName = <<>> /\ confirmDialog = Null

\* no App component is mounted
LocalIdle ==
    /\ app = "none"
    /\ lsItem = Absent
    /\ storedValue = Undef
    /\ rnd = 0
    /\ dirty = FALSE
    /\ lastActiveId = Undef
    /\ form = createEmptyForm
    /\ editingId = Null
    /\ editForm = createEmptyForm
    /\ submitted = [op |-> "none", payload |-> Undef]
    /\ SubjectFormIdle

\* no remote App is mounted
RemoteIdle ==
    /\ user = Null
    /\ subjects = <<>>
    /\ activeSubjectId = Null
    /\ error = Null
    /\ isLoading = FALSE
    /\ db = <<>>
    /\ calls = <<>>

\* the timer as the App's state hooks start it
TimerIdle ==
    /\ timerOpen = FALSE
    /\ sessionType = "focus"
    /\ secondsLeft = FOCUS_DURATION
    /\ isRunning = FALSE
    /\ completedPomodoros = 0
    /\ focusCalls = <<>>
    /\ appended = 0

\* no focus entry is logged or loaded
FocusIdle ==
    /\ zone = 0
    /\ now = InstantAt(Today, 12, 0, 0)
    /\ focusDb = <<>>
    /\ focusEntries = <<>>
    /\ computedAt = now
    /\ productivityStats = productivityStatsAt(<<>>, now, zone)
    /\ TimerIdle

(***************************************************************************)
(* The normalizer applied to an untrusted value, and then to its result.   *)
(***************************************************************************)
NormInit ==
    /\ nStage = "input"
    /\ nValue \in RawValues
    /\ nResult = NoResult
    /\ nAgain = NoResult
    /\ PayIdle
    /\ LocalIdle
    /\ RemoteIdle
    /\ FocusIdle

Normalize ==
    /\ nStage = "input"
    /\ nResult' = normalizeStoredValue(nValue, 0)
    /\ nStage' = "normalized"
    /\ UNCHANGED <<nValue, nAgain, payVars, subjectVars, focusVars, localVars, remoteVars>>

NormalizeAgain ==
    /\ nStage = "normalized"
    /\ nAgain' = normalizeStoredValue(nResult.state, nResult.n)
    /\ nStage' = "renormalized"
    /\ UNCHANGED <<nValue, nResult, payVars, subjectVars, focusVars, localVars, remoteVars>>

NormNext == Normalize \/ NormalizeAgain

SpecNorm == NormInit /\ [][NormNext]_vars

(***************************************************************************)
(* The payload builder of each variant applied to a form.                  *)
(***************************************************************************)
PayInit ==
    /\ pForm \in Forms
    /\ pLocal = Undef
    /\ pRemote = Undef
    /\ NormIdle
    /\ LocalIdle
    /\ RemoteIdle
    /\ FocusIdle

PrepareLocal ==
    /\ pLocal = Undef
    /\ pLocal' = prepareExamPayload(pForm)
    /\ UNCHANGED <<pForm, pRemote, normVars, subjectVars, focusVars, localVars, remoteVars>>

PrepareRemote ==
    /\ pRemote = Undef
    /\ pRemote' = prepareExamPayload_remote(RemoteForm(pForm))
    /\ UNCHANGED <<pForm, pLocal, normVars, subjectVars, focusVars, localVars, remoteVars>>

PayNext == PrepareLocal \/ PrepareRemote

SpecPayload == PayInit /\ [][PayNext]_vars

(***************************************************************************)
(* The App component of the local variant (part_006), mounted on a storage *)
(* key.  storedValue is the state of useLocalStorage; dirty says that      *)
(* storedValue was set since the effects last ran, so the effects of the   *)
(* committed render are still to run; rnd is the next draw of the random   *)
(* source; lastActiveId is the activeSubjectId the form-reset effect last  *)
(* ran for; submitted is the last form submission and the payload built    *)
(* for it.  Handlers run on a render whose effects have run.  app says     *)
(* what is there: only the storage, the local App, or the remote App.      *)
(***************************************************************************)
NoSubmit == [op |-> "none", payload |-> Undef]

\* useMemo(() => normalizeStoredValue(storedValue), [storedValue])
normalizedState == normalizeStoredValue(storedValue, rnd).state

activeSubject == activeSubjectOf(normalizedState)

\* activeSubject?.exams ?? []
exams == IF Truthy(activeSubject) THEN Get(activeSubject, "exams").a ELSE <<>>

\* the page is not loaded yet: the storage holds one of the items
StorageHolds(items) ==
    /\ app = "storage"
    /\ lsItem \in items
    /\ storedValue = Undef
    /\ rnd = 0
    /\ dirty = FALSE
    /\ lastActiveId = Undef
    /\ form = createEmptyForm
    /\ editingId = Null
    /\ editForm = createEmptyForm
    /\ submitted = NoSubmit
    /\ SubjectFormIdle
    /\ RemoteIdle
    /\ FocusIdle

\* the form-reset effect, which runs when state.activeSubjectId has changed
ResetFormsOn(activeId) ==
    /\ lastActiveId' = activeId
    /\ IF activeId # lastActiveId
       THEN form' = createEmptyForm /\ editingId' = Null /\ editForm' = createEmptyForm
       ELSE UNCHANGED <<form, editingId, editForm>>

\* the effects of a render with normalized = normalizeStoredValue(storedValue):
\* the write of useLocalStorage, the reconcile effect and the form-reset effect.
\* (The re-read of the mount effect returns the value the first render read.)
RunEffects(normalized) ==
    /\ lsItem' = JSON_stringify(storedValue)
    /\ storedValue' = IF normalized.same THEN storedValue ELSE normalized.state
    /\ rnd' = normalized.n
    /\ dirty' = ~normalized.same
    /\ ResetFormsOn(Get(normalized.state, "activeSubjectId"))

FlushEffects ==
    /\ app = "local"
    /\ dirty
    /\ RunEffects(normalizeStoredValue(storedValue, rnd))
    /\ submitted' = NoSubmit
    /\ UNCHANGED <<app, normVars, subjectVars, payVars, focusVars, remoteVars>>

\* the page is loaded, for the first time or again: the first render of App on
\* what the storage holds
Mount ==
    /\ app \in {"storage", "local"}
    /\ ~dirty
    /\ rnd < MaxDraws
    /\ app' = "local"
    /\ storedValue' = readValue(lsItem, createDefaultState(rnd))
    /\ rnd' = rnd + 1
    /\ dirty' = TRUE
    /\ lastActiveId' = Get(normalizeStoredValue(storedValue', rnd').state, "activeSubjectId")
    /\ form' = createEmptyForm
    /\ editingId' = Null
    /\ editForm' = createEmptyForm
    /\ submitted' = NoSubmit
    /\ isAddingSubject' = FALSE
    /\ newSubjectName' = <<>>
    /\ UNCHANGED <<lsItem, confirmDialog, normVars, payVars, focusVars, remoteVars>>

\* updateState(updater), base being normalizeStoredValue(previous) and next the
\* state the updater returns for it
updateState(base, next) ==
    /\ storedValue' = next
    /\ rnd' = base.n
    /\ dirty' = TRUE

\* entries typed into a form: the field and its new value
TypedEntries ==
    { <<"paper", <<" ">> >>, <<"paper", <<"Q">> >> }

handleInputChange ==
    /\ app = "local"
    /\ ~dirty
    /\ \E entry \in TypedEntries : form' = [form EXCEPT ![entry[1]] = entry[2]]
    /\ submitted' = NoSubmit
    /\ UNCHANGED <<app, lsItem, storedValue, rnd, dirty, lastActiveId, editingId, editForm,
                   normVars, subjectVars, payVars, focusVars, remoteVars>>

\* handleAddExam without the return on a null payload
AddExamWith_NoNullCheck(payload, base) ==
    /\ submitted' = [op |-> "handleAddExam", payload |-> payload]
    /\ IF ~Truthy(activeSubject)
       THEN /\ rnd' = rnd + 1
            /\ UNCHANGED <<lsItem, storedValue, dirty, lastActiveId, form, editingId, editForm>>
       ELSE /\ updateState(base, addExam(base.state, activeSubject,
                                         Spread(Obj([id |-> Str(randomUUID(rnd))]),
                                                PayloadFields(payload))))
            /\ form' = createEmptyForm
            /\ UNCHANGED <<lsItem, lastActiveId, editingId, editForm>>

\* handleAddExam once the payload is built; base is what updateState normalizes
AddExamWith(payload, base) ==
    /\ submitted' = [op |-> "handleAddExam", payload |-> payload]
    /\ IF ~Truthy(payload)
       THEN UNCHANGED <<lsItem, storedValue, rnd, dirty, lastActiveId, form, editingId,
                        editForm>>
       ELSE IF ~Truthy(activeSubject)
       THEN /\ rnd' = rnd + 1
            /\ UNCHANGED <<lsItem, storedValue, dirty, lastActiveId, form, editingId, editForm>>
       ELSE /\ updateState(base, addExam(base.state, activeSubject,
                                         Spread(Obj([id |-> Str(randomUUID(rnd))]),
                                                PayloadFields(payload))))
            /\ form' = createEmptyForm
            /\ UNCHANGED <<lsItem, lastActiveId, editingId, editForm>>

handleAddExam ==
    /\ app = "local"
    /\ ~dirty
    /\ rnd < MaxDraws
    /\ AddExamWith(prepareExamPayload(form), normalizeStoredValue(storedValue, rnd + 1))
    /\ UNCHANGED <<app, normVars, subjectVars, payVars, focusVars, remoteVars>>

handleStartEdit ==
    /\ app = "local"
    /\ ~dirty
    /\ \E i \in 1..Len(exams) :
          /\ editingId' = Get(exams[i], "id")
          /\ editForm' = examToForm(exams[i])
    /\ submitted' = NoSubmit
    /\ UNCHANGED <<app, lsItem, storedValue, rnd, dirty, lastActiveId, form, normVars,
                   subjectVars, payVars, focusVars, remoteVars>>

handleEditChange ==
    /\ app = "local"
    /\ ~dirty
    /\ Truthy(editingId)
    /\ \E entry \in TypedEntries : editForm' = [editForm EXCEPT ![entry[1]] = entry[2]]
    /\ submitted' = NoSubmit
    /\ UNCHANGED <<app, lsItem, storedValue, rnd, dirty, lastActiveId, form, editingId,
                   normVars, subjectVars, payVars, focusVars, remoteVars>>

\* handleUpdateExam once the payload is built
UpdateExamWith(payload, base) ==
    /\ submitted' = [op |-> "handleUpdateExam", payload |-> payload]
    /\ IF ~Truthy(payload)
       THEN UNCHANGED <<lsItem, storedValue, rnd, dirty, lastActiveId, form, editingId,
                        editForm>>
       ELSE IF ~Truthy(activeSubject)
       THEN /\ editingId' = Null
            /\ editForm' = createEmptyForm
            /\ UNCHANGED <<lsItem, storedValue, rnd, dirty, lastActiveId, form>>
       ELSE /\ updateState(base, updateExam(base.state, activeSubject, editingId, payload))
            /\ editingId' = Null
            /\ editForm' = createEmptyForm
            /\ UNCHANGED <<lsItem, lastActiveId, form>>

handleUpdateExam ==
    /\ app = "local"
    /\ ~dirty
    /\ IF ~Truthy(editingId)
       THEN /\ submitted' = [op |-> "handleUpdateExam", payload |-> Undef]
            /\ UNCHANGED <<lsItem, storedValue, rnd, dirty, lastActiveId, form, editingId,
                           editForm>>
       ELSE UpdateExamWith(prepareExamPayload(editForm), normalizeStoredValue(storedValue, rnd))
    /\ UNCHANGED <<app, normVars, subjectVars, payVars, focusVars, remoteVars>>

\* handleDeleteExam(id) once updateState has normalized the previous value
DeleteExamWith(id, base) ==
    /\ updateState(base, deleteExam(base.state, activeSubject, id))
    /\ IF editingId = id
       THEN editingId' = Null /\ editForm' = createEmptyForm
       ELSE UNCHANGED <<editingId, editForm>>

handleDeleteExam ==
    /\ app = "local"
    /\ ~dirty
    /\ Truthy(activeSubject)
    /\ \E i \in 1..Len(exams) :
          DeleteExamWith(Get(exams[i], "id"), normalizeStoredValue(storedValue, rnd))
    /\ submitted' = NoSubmit
    /\ UNCHANGED <<app, lsItem, lastActiveId, form, normVars,
                   subjectVars, payVars, focusVars, remoteVars>>

\* the ids handleSubjectSelect is called with: those of the listed subjects, and
\* one that is not listed
SelectableIds ==
    {Get(Get(normalizedState, "subjects").a[i], "id") :
        i \in 1..Len(Get(normalizedState, "subjects").a)} \cup {Str(<<"z">>)}

\* handleSubjectSelect(subjectId) once updateState has normalized the previous
\* value; an updater that returns the previous value itself sets nothing
SelectSubjectWith(subjectId, base) ==
    IF base.same /\ selectKeepsCurrent(base.state, subjectId)
    THEN UNCHANGED <<storedValue, rnd, dirty>>
    ELSE updateState(base, selectSubject(base.state, subjectId))

handleSubjectSelect ==
    /\ app = "local"
    /\ ~dirty
    /\ \E subjectId \in SelectableIds :
          SelectSubjectWith(subjectId, normalizeStoredValue(storedValue, rnd))
    /\ submitted' = NoSubmit
    /\ UNCHANGED <<app, lsItem, lastActiveId, form, editingId, editForm, normVars,
                   subjectVars, payVars, focusVars, remoteVars>>

LocalNext ==
    \/ Mount
    \/ FlushEffects
    \/ handleInputChange
    \/ handleAddExam
    \/ handleStartEdit
    \/ handleEditChange
    \/ handleUpdateExam
    \/ handleDeleteExam
    \/ handleSubjectSelect

\* stored items of SpecLocal: nothing stored, a valid state of two subjects, and
\* a bare array holding an exam and null
TwoSubjects ==
    AppState(<< Subject(<<"s", "1">>, <<"M", "a", "t", "h">>,
                        << Exam(<<"e", "1">>, <<"P">>, Fin(1), Fin(2), Fin(3), Fin(50)),
                           Exam(<<"e", "2">>, <<"R">>, Fin(4), Fin(0), Fin(9), Fin(100)) >>),
                Subject(<<"s", "2">>, <<"B", "i", "o">>, <<>>) >>,
             <<"s", "1">>)

LocalItems ==
    { JSON_stringify(TwoSubjects),
      JSON_stringify(Arr(<< Exam(<<"e", "1">>, <<"P">>, Fin(1), Fin(2), Fin(3), Fin(50)), Null >>)) }

LocalInit == StorageHolds(LocalItems) /\ NormIdle /\ PayIdle

SpecLocal == LocalInit /\ [][LocalNext]_vars

\* stored items of SpecStorage: nothing stored, the empty text, a text that is no
\* JSON, documents of untrusted values, and a valid state written with a numeral
\* beyond the range of a double
StoredValues ==
    {RawState(ss, es, a) : ss \in SeqsUpTo(RawSubjects, 1), es \in RawExamLists,
                           a \in {Undef, Str(<<"s", "1">>)}}
    \cup {Arr(es) : es \in RawExamLists}
    \cup {Null, Num(Fin(5)), Str(<<"x">>), Bool(FALSE), Obj([subjects |-> Null])}

LargeNumeralText ==
    Obj([subjects |->
            Arr(<< Obj([id |-> Str(<<"s", "1">>), name |-> Str(<<"M", "a", "t", "h">>),
                        exams |->
                           Arr(<< Obj([id |-> Str(<<"e", "1">>), paper |-> Str(<<"P">>),
                                       mcq |-> Numeral(<<"1", "e", "9", "9", "9">>),
                                       essay |-> Numeral(<<"0">>),
                                       total |-> Numeral(<<"1">>),
                                       completion |-> Numeral(<<"5", "0">>)]) >>)]) >>),
         activeSubjectId |-> Str(<<"s", "1">>)])

StorageItems ==
    {Absent, EmptyText, Garbage, Numeral(<<"-">>), LargeNumeralText}
    \cup {JSON_stringify(v) : v \in StoredValues}

StorageInit == StorageHolds(StorageItems) /\ NormIdle /\ PayIdle

StorageNext == Mount \/ FlushEffects

SpecStorage == StorageInit /\ [][StorageNext]_vars

(***************************************************************************)
(* The App component of the remote variant (part_007) and its backend.     *)
(* subjects, activeSubjectId, error and isLoading are its state hooks; db  *)
(* holds the backend's subject rows of the user, each with its exam rows;  *)
(* calls holds the handler calls that wait at an await, each with the      *)
(* values its closure captured and the request or response it waits on.    *)
(***************************************************************************)
ErrorMessage(text) == Str(<<text>>)

\* subjects.find((subject) => subject.id === activeSubjectId) ?? subjects[0]
activeSubject_remote == findSubject(subjects, activeSubjectId)

\* activeSubject?.exams ?? []
exams_remote ==
    IF Truthy(activeSubject_remote) THEN Get(activeSubject_remote, "exams").a ELSE <<>>

\* the forms are rendered: a user is signed in and the loading screen is not shown
FormsShown == Truthy(user) /\ ~(isLoading /\ Len(subjects) = 0)

Call(op, pc, payload, subjectId, examId) ==
    [op |-> op, pc |-> pc, payload |-> payload, subjectId |-> subjectId, examId |-> examId,
     data |-> <<>>]

\* the call once its request is answered: what it captured for the request is
\* not read again
Answered(call, pc, data) == [Call(call.op, pc, Null, Null, Null) EXCEPT !.data = data]

\* the calls without the one at position i
Finished(i) == SubSeq(calls, 1, i - 1) \o SubSeq(calls, i + 1, Len(calls))

\* Number(value ?? 0)
NumberOrZero(value) == Num(JsNumber(Coalesce(value, Num(Fin(0)))))

\* loadSubjects: one exam row mapped to an ExamEntry
mappedExam(exam) ==
    Obj([id |-> Get(exam, "id"), paper |-> Get(exam, "paper"),
         mcq |-> NumberOrZero(Get(exam, "mcq")), essay |-> NumberOrZero(Get(exam, "essay")),
         total |-> NumberOrZero(Get(exam, "total")),
         completion |-> NumberOrZero(Get(exam, "completion"))])

\* loadSubjects: the rows of the response mapped to Subject values
mapped(data) ==
    [i \in 1..Len(data) |->
        Obj([id |-> Get(data[i], "id"), name |-> Get(data[i], "name"),
             exams |-> Arr([j \in 1..Len(Coalesce(Get(data[i], "exams"), Arr(<<>>)).a) |->
                               mappedExam(Coalesce(Get(data[i], "exams"), Arr(<<>>)).a[j])])])]

\* the updater loadSubjects passes to setActiveSubjectId
keptActiveSubjectId(previous, mappedSubjects) ==
    IF Truthy(previous)
       /\ \E i \in 1..Len(mappedSubjects) : Get(mappedSubjects[i], "id") = previous
    THEN previous
    ELSE IF mappedSubjects # <<>> THEN Get(mappedSubjects[1], "id") ELSE Null

\* the backend's insert into exams: the row joins the exams of its subject
insertedRows(rows, subjectId, payload, id) ==
    [i \in 1..Len(rows) |->
        IF Get(rows[i], "id") = subjectId
        THEN With(rows[i], "exams",
                  Arr(Append(Get(rows[i], "exams").a, Spread(Obj([id |-> Str(id)]), payload))))
        ELSE rows[i]]

\* the backend's update of exams where id = examId
updatedRows(rows, examId, payload) ==
    [i \in 1..Len(rows) |->
        With(rows[i], "exams",
             Arr([j \in 1..Len(Get(rows[i], "exams").a) |->
                     IF Get(Get(rows[i], "exams").a[j], "id") = examId
                     THEN Spread(Get(rows[i], "exams").a[j], payload)
                     ELSE Get(rows[i], "exams").a[j]]))]

\* the remote App with the subjects of the user loaded
RemoteRows ==
    { <<>>,
      << Subject(<<"s", "1">>, <<"M", "a", "t", "h">>,
                 << Exam(<<"e", "1">>, <<"P">>, Fin(1), Fin(2), Fin(3), Fin(50)) >>),
         Subject(<<"s", "2">>, <<"B", "i", "o">>, <<>>) >> }

RemoteInit ==
    /\ app = "remote"
    /\ user = Str(<<"u", "s", "e", "r">>)
    /\ db \in RemoteRows
    /\ subjects = mapped(db)
    /\ activeSubjectId = keptActiveSubjectId(Null, subjects)
    /\ error = Null
    /\ isLoading = FALSE
    /\ calls = <<>>
    /\ rnd = 0
    /\ form = createEmptyForm_remote
    /\ editingId = Null
    /\ editForm = createEmptyForm_remote
    /\ submitted = NoSubmit
    /\ SubjectFormIdle
    /\ lsItem = Absent
    /\ storedValue = Undef
    /\ dirty = FALSE
    /\ lastActiveId = Undef
    /\ NormIdle
    /\ PayIdle
    /\ FocusIdle

handleInputChange_remote ==
    /\ app = "remote"
    /\ FormsShown
    /\ \E entry \in TypedEntries : form' = [form EXCEPT ![entry[1]] = entry[2]]
    /\ submitted' = NoSubmit
    /\ UNCHANGED <<app, rnd, editingId, editForm, localOnlyVars, remoteVars, normVars,
                   subjectVars, payVars, focusVars>>

\* handleAddExam (remote) up to its first await
SendInsert(payload) ==
    /\ submitted' = [op |-> "handleAddExam", payload |-> payload]
    /\ IF ~Truthy(payload)
       THEN UNCHANGED <<error, calls>>
       ELSE IF ~Truthy(activeSubject_remote)
       THEN UNCHANGED <<error, calls>>
       ELSE IF ~Truthy(user)
       THEN /\ error' = ErrorMessage("You must be signed in to add a paper.")
            /\ UNCHANGED calls
       ELSE /\ calls' = Append(calls, Call("handleAddExam", "insert", PayloadFields(payload),
                                           Get(activeSubject_remote, "id"), Null))
            /\ UNCHANGED error

handleAddExam_remote ==
    /\ app = "remote"
    /\ FormsShown
    /\ Len(calls) < MaxCalls
    /\ SendInsert(prepareExamPayload_remote(form))
    /\ UNCHANGED <<app, rnd, form, editingId, editForm, localOnlyVars, user, subjects,
                   activeSubjectId, isLoading, db, normVars, subjectVars, payVars, focusVars>>

handleStartEdit_remote ==
    /\ app = "remote"
    /\ FormsShown
    /\ \E i \in 1..Len(exams_remote) :
          /\ editingId' = Get(exams_remote[i], "id")
          /\ editForm' = RemoteForm(examToForm(exams_remote[i]))
    /\ submitted' = NoSubmit
    /\ UNCHANGED <<app, rnd, form, localOnlyVars, remoteVars, normVars,
                   subjectVars, payVars, focusVars>>

handleEditChange_remote ==
    /\ app = "remote"
    /\ FormsShown
    /\ Truthy(editingId)
    /\ \E entry \in TypedEntries : editForm' = [editForm EXCEPT ![entry[1]] = entry[2]]
    /\ submitted' = NoSubmit
    /\ UNCHANGED <<app, rnd, form, editingId, localOnlyVars, remoteVars, normVars,
                   subjectVars, payVars, focusVars>>

\* handleUpdateExam (remote) up to its first await
SendUpdate(payload) ==
    /\ submitted' = [op |-> "handleUpdateExam", payload |-> payload]
    /\ IF ~Truthy(payload)
       THEN UNCHANGED <<error, calls>>
       ELSE IF ~Truthy(user)
       THEN /\ error' = ErrorMessage("You must be signed in to update a paper.")
            /\ UNCHANGED calls
       ELSE /\ calls' = Append(calls, Call("handleUpdateExam", "update", payload, Null,
                                           editingId))
            /\ UNCHANGED error

handleUpdateExam_remote ==
    /\ app = "remote"
    /\ FormsShown
    /\ Len(calls) < MaxCalls
    /\ IF ~Truthy(editingId)
       THEN /\ submitted' = [op |-> "handleUpdateExam", payload |-> Undef]
            /\ UNCHANGED <<error, calls>>
       ELSE SendUpdate(prepareExamPayload_remote(editForm))
    /\ UNCHANGED <<app, rnd, form, editingId, editForm, localOnlyVars, user, subjects,
                   activeSubjectId, isLoading, db, normVars, subjectVars, payVars, focusVars>>

\* the backend serves an insert into exams, or the request fails
ServeInsert ==
    /\ app = "remote"
    /\ \E i \in 1..Len(calls) :
          /\ calls[i].pc = "insert"
          /\ \/ /\ rnd < MaxDraws
                /\ \E s \in 1..Len(db) : Get(db[s], "id") = calls[i].subjectId
                /\ db' = insertedRows(db, calls[i].subjectId, calls[i].payload, randomUUID(rnd))
                /\ rnd' = rnd + 1
                /\ calls' = [calls EXCEPT ![i] = Answered(calls[i], "done", <<>>)]
             \/ /\ calls' = [calls EXCEPT ![i] = Answered(calls[i], "failed", <<>>)]
                /\ UNCHANGED <<db, rnd>>
    /\ submitted' = NoSubmit
    /\ UNCHANGED <<app, form, editingId, editForm, localOnlyVars, user, subjects,
                   activeSubjectId, error, isLoading, normVars, subjectVars, payVars, focusVars>>

\* the backend serves an update of exams, or the request fails
ServeUpdate ==
    /\ app = "remote"
    /\ \E i \in 1..Len(calls) :
          /\ calls[i].pc = "update"
          /\ \/ /\ db' = updatedRows(db, calls[i].examId, calls[i].payload)
                /\ calls' = [calls EXCEPT ![i] = Answered(calls[i], "done", <<>>)]
             \/ /\ calls' = [calls EXCEPT ![i] = Answered(calls[i], "failed", <<>>)]
                /\ UNCHANGED db
    /\ submitted' = NoSubmit
    /\ UNCHANGED <<app, rnd, form, editingId, editForm, localOnlyVars, user, subjects,
                   activeSubjectId, error, isLoading, normVars, subjectVars, payVars, focusVars>>

\* handleAddExam and handleUpdateExam resume after their request; on success they
\* call loadSubjects, which runs up to its await (its user is the one the handler
\* has checked)
ResumeAfterRequest ==
    /\ app = "remote"
    /\ \E i \in 1..Len(calls) :
          \/ /\ calls[i].pc = "failed"
             /\ error' = ErrorMessage("error.message")
             /\ calls' = Finished(i)
             /\ UNCHANGED <<form, isLoading, subjects, activeSubjectId>>
          \/ /\ calls[i].pc = "done"
             /\ form' = IF calls[i].op = "handleAddExam" THEN createEmptyForm_remote ELSE form
             /\ isLoading' = TRUE
             /\ error' = Null
             /\ calls' = [calls EXCEPT ![i].pc = "select"]
             /\ UNCHANGED <<subjects, activeSubjectId>>
    /\ submitted' = NoSubmit
    /\ UNCHANGED <<app, rnd, editingId, editForm, localOnlyVars, user, db, normVars,
                   subjectVars, payVars, focusVars>>

\* the backend serves the select of loadSubjects, or the request fails
ServeSelect ==
    /\ app = "remote"
    /\ \E i \in 1..Len(calls) :
          /\ calls[i].pc = "select"
          /\ \/ calls' = [calls EXCEPT ![i] = Answered(calls[i], "selected", db)]
             \/ calls' = [calls EXCEPT ![i].pc = "select-failed"]
    /\ submitted' = NoSubmit
    /\ UNCHANGED <<app, rnd, form, editingId, editForm, localOnlyVars, user, subjects,
                   activeSubjectId, error, isLoading, db, normVars,
                   subjectVars, payVars, focusVars>>

\* the form-reset effect of the remote App, which runs when activeSubjectId has
\* changed; resetEdit says that the handler resets the edit form itself
FormsAfterLoad(resetEdit) ==
    IF activeSubjectId' # activeSubjectId
    THEN form' = createEmptyForm_remote /\ editingId' = Null
         /\ editForm' = createEmptyForm_remote
    ELSE IF resetEdit
    THEN editingId' = Null /\ editForm' = createEmptyForm_remote /\ UNCHANGED form
    ELSE UNCHANGED <<form, editingId, editForm>>

\* loadSubjects resumes after its select, and then the handler that awaited it
ResumeAfterSelect ==
    /\ app = "remote"
    /\ \E i \in 1..Len(calls) :
          /\ \/ /\ calls[i].pc = "select-failed"
                /\ error' = ErrorMessage("error.message")
                /\ subjects' = <<>>
                /\ UNCHANGED activeSubjectId
             \/ /\ calls[i].pc = "selected"
                /\ subjects' = mapped(calls[i].data)
                /\ activeSubjectId' = keptActiveSubjectId(activeSubjectId, subjects')
                /\ UNCHANGED error
          /\ FormsAfterLoad(calls[i].op = "handleUpdateExam")
          /\ calls' = Finished(i)
    /\ isLoading' = FALSE
    /\ submitted' = NoSubmit
    /\ UNCHANGED <<app, rnd, localOnlyVars, user, db, normVars, subjectVars, payVars, focusVars>>

RemoteNext ==
    \/ handleInputChange_remote
    \/ handleAddExam_remote
    \/ handleStartEdit_remote
    \/ handleEditChange_remote
    \/ handleUpdateExam_remote
    \/ ServeInsert
    \/ ServeUpdate
    \/ ResumeAfterRequest
    \/ ServeSelect
    \/ ResumeAfterSelect

SpecRemote == RemoteInit /\ [][RemoteNext]_vars

\* either variant of the App
AppsInit == LocalInit \/ RemoteInit

AppsNext == LocalNext \/ RemoteNext

SpecApps == AppsInit /\ [][AppsNext]_vars

(***************************************************************************)
(* The focus log of the remote variant (part_007). focusDb holds the       *)
(* backend's focus_entries rows of the user, focusEntries is the state     *)
(* hook, and productivityStats is the value its useMemo keeps: it is       *)
(* computed again only when focusEntries is set, at the instant computedAt *)
(* its callback reads as now. now is the wall clock and zone the offset of *)
(* the host's zone.                                                        *)
(***************************************************************************)
FocusRow(id, duration, started_at) ==
    Obj([id |-> Str(id), duration |-> Num(Fin(duration)), started_at |-> started_at])

\* Date.now() - HISTORY_LIMIT_DAYS * 24 * 60 * 60 * 1000, as an instant
cutoffAt(instant) == instant - HISTORY_LIMIT_DAYS * 24 * 60 * 60

\* the rows in ascending order of started_at, rows of one instant in the order given
RECURSIVE orderedByStart(_)
orderedByStart(rows) ==
    IF rows = <<>> THEN <<>>
    ELSE LET before == orderedByStart(SubSeq(rows, 1, Len(rows) - 1))
             row == rows[Len(rows)]
             k == Cardinality({i \in 1..Len(before) :
                                  Get(before[i], "started_at").iso <= Get(row, "started_at").iso})
         IN SubSeq(before, 1, k) \o <<row>> \o SubSeq(before, k + 1, Len(before))

\* the backend's select of loadFocusEntries: .gte("started_at", cutoff).order("started_at")
selectedFocusRows(rows, cutoff) ==
    LET Keep(row) == Get(row, "started_at").iso >= cutoff
    IN orderedByStart(SelectSeq(rows, Keep))

\* loadFocusEntries: the rows of the response mapped to FocusEntry values
mappedFocusEntries(data, instant) ==
    [i \in 1..Len(data) |->
        FocusEntry(Get(data[i], "id"), NumberOrZero(Get(data[i], "duration")),
                   Coalesce(Get(data[i], "started_at"), toISOString(DateAt(instant))))]

Zones == {19800, -18000}

\* rows around the edges of the day, week and month windows of Today and the day after
FocusPool(tz) ==
    << FocusRow(<<"f", "1">>, 300, toISOString(DateAt(InstantAt(Today - 130, 10, 0, tz)))),
       FocusRow(<<"f", "2">>, 600, toISOString(DateAt(InstantAt(Today - 30, 23, 59, tz)))),
       FocusRow(<<"f", "3">>, 900, toISOString(DateAt(InstantAt(Today - 29, 0, 0, tz)))),
       FocusRow(<<"f", "4">>, 300, toISOString(DateAt(InstantAt(Today - 23, 10, 0, tz)))),
       FocusRow(<<"f", "5">>, 600, toISOString(DateAt(InstantAt(Today - 22, 0, 0, tz)))),
       FocusRow(<<"f", "6">>, 900, toISOString(DateAt(InstantAt(Today - 7, 23, 59, tz)))),
       FocusRow(<<"f", "7">>, 300, toISOString(DateAt(InstantAt(Today - 6, 0, 0, tz)))),
       FocusRow(<<"f", "8">>, 900, toISOString(DateAt(InstantAt(Today - 1, 23, 59, tz)))),
       FocusRow(<<"f", "9">>, 300, toISOString(DateAt(InstantAt(Today, 1, 0, tz)))),
       FocusRow(<<"f", "1", "0">>, 600, toISOString(DateAt(InstantAt(Today, 23, 0, tz)))),
       FocusRow(<<"f", "1", "1">>, 900, toISOString(DateAt(InstantAt(Today + 1, 0, 30, tz)))) >>

\* the rows of the pool at the positions in picked, in the order of the pool
RECURSIVE PickedFrom(_, _, _)
PickedFrom(pool, picked, i) ==
    IF i > Len(pool) THEN <<>>
    ELSE (IF i \in picked THEN <<pool[i]>> ELSE <<>>) \o PickedFrom(pool, picked, i + 1)

FocusLogs(tz) ==
    { PickedFrom(FocusPool(tz), picked, 1) :
        picked \in {S \in SUBSET (1..Len(FocusPool(tz))) : Cardinality(S) <= MaxEntries} }

ClockInstants(tz) ==
    { InstantAt(Today, 12, 0, tz), InstantAt(Today + 1, 0, 0, tz), InstantAt(Today + 1, 12, 0, tz) }

\* setFocusEntries(entries): the next render runs the useMemo callback again
setFocusEntries(entries) ==
    /\ focusEntries' = entries
    /\ computedAt' = now
    /\ productivityStats' = productivityStatsAt(entries, now, zone)

\* the remote App of a signed-in user, mounted and not loaded yet, on a backend
\* that holds a log of focus entries
StatsInit ==
    /\ app = "remote"
    /\ user = Str(<<"u", "s", "e", "r">>)
    /\ subjects = <<>>
    /\ activeSubjectId = Null
    /\ error = Null
    /\ isLoading = FALSE
    /\ db = <<>>
    /\ calls = <<>>
    /\ rnd = 0
    /\ form = createEmptyForm_remote
    /\ editingId = Null
    /\ editForm = createEmptyForm_remote
    /\ submitted = NoSubmit
    /\ SubjectFormIdle
    /\ lsItem = Absent
    /\ storedValue = Undef
    /\ dirty = FALSE
    /\ lastActiveId = Undef
    /\ NormIdle
    /\ PayIdle
    /\ zone \in Zones
    /\ now = InstantAt(Today, 12, 0, zone)
    /\ focusDb \in FocusLogs(zone)
    /\ focusEntries = <<>>
    /\ computedAt = now
    /\ productivityStats = productivityStatsAt(focusEntries, now, zone)
    /\ TimerIdle

\* loadFocusEntries, run by refreshAll when the page is loaded again, with the
\* answer of the backend: the rows, or an error
loadFocusEntries ==
    /\ app = "remote"
    /\ Truthy(user)
    /\ \/ /\ setFocusEntries(mappedFocusEntries(selectedFocusRows(focusDb, cutoffAt(now)), now))
          /\ error' = Null
       \/ /\ setFocusEntries(<<>>)
          /\ error' = ErrorMessage("error.message")
    /\ UNCHANGED <<now, zone, focusDb, timerVars>>
    /\ UNCHANGED <<user, subjects, activeSubjectId, isLoading, db, calls>>
    /\ UNCHANGED <<localVars, normVars, subjectVars, payVars>>

\* time passes
ClockPasses ==
    /\ app = "remote"
    /\ \E later \in ClockInstants(zone) : later > now /\ now' = later
    /\ UNCHANGED <<zone, focusDb, focusEntries, computedAt, productivityStats, timerVars>>
    /\ UNCHANGED <<remoteVars, localVars, normVars, subjectVars, payVars>>

StatsNext == loadFocusEntries \/ ClockPasses

SpecStats == StatsInit /\ [][StatsNext]_vars

(***************************************************************************)
(* The Pomodoro timer of both variants. timerOpen, sessionType,            *)
(* secondsLeft and isRunning are state hooks of each App; the local        *)
(* variant (part_006) counts completedPomodoros, the remote one (part_007) *)
(* records a focus entry through recordFocusSession. focusCalls holds the  *)
(* calls of recordFocusSession that wait at an await, each with the        *)
(* caller it returns to: the countdown effect, which does not wait for it, *)
(* or handleSkipSession, which goes on after it. An effect runs right      *)
(* after the render that follows a state change and before the next event *)
(* is handled: the timerOpen effect is part of the step that closes the    *)
(* timer, and while the countdown effect has a transition to make no       *)
(* handler runs. The handlers of the timer are reachable while its modal   *)
(* is rendered. libraryOpen and productivityOpen are not part of the       *)
(* model. The state updates of one handler, or of what a handler does     *)
(* after an await, are rendered together. appended counts the rows recorded for the focus session that     *)
(* began last, and current marks the calls made in it.                     *)
(***************************************************************************)
sessionDurationOf(type) == IF type = "focus" THEN FOCUS_DURATION ELSE BREAK_DURATION

nextSessionOf(type) == IF type = "focus" THEN "break" ELSE "focus"

\* the App is rendered, its effects have run, and it takes events
TakesEvents ==
    /\ \/ app = "local" /\ ~dirty
       \/ app = "remote" /\ Truthy(user)
    /\ ~(isRunning /\ secondsLeft <= 0)

\* the calls in flight once a new focus session has begun
Earlier(waiting) == [i \in 1..Len(waiting) |-> [waiting[i] EXCEPT !.current = FALSE]]

\* setSessionType(type); setSecondsLeft(full duration of type)
setSession(type) ==
    /\ sessionType' = type
    /\ secondsLeft' = sessionDurationOf(type)

\* the rows recorded for the session that is set, and the calls made for it
beginSession(type, waiting) ==
    /\ appended' = IF type = "focus" THEN 0 ELSE appended
    /\ focusCalls' = IF type = "focus" THEN Earlier(waiting) ELSE waiting

\* the timerOpen effect: if (!timerOpen) setIsRunning(false)
closedTimerStops(open) == isRunning' = IF open THEN isRunning ELSE FALSE

othersOfTimerStep ==
    /\ submitted' = NoSubmit
    /\ UNCHANGED <<app, lsItem, storedValue, rnd, dirty, lastActiveId, form, editingId, editForm>>
    /\ UNCHANGED <<normVars, subjectVars, payVars>>
    /\ UNCHANGED <<user, subjects, activeSubjectId, isLoading, db, calls>>
    /\ UNCHANGED <<now, zone>>

\* handleSidebarClick("Alerts") of the local variant
handleSidebarClick ==
    /\ app = "local"
    /\ TakesEvents
    /\ timerOpen' = ~timerOpen
    /\ closedTimerStops(timerOpen')
    /\ othersOfTimerStep
    /\ UNCHANGED <<sessionType, secondsLeft, completedPomodoros, focusCalls, appended>>
    /\ UNCHANGED <<error, focusDb, focusEntries, productivityStats, computedAt>>

\* handleSidebarClick of the remote variant: "Papers" and an opening "Analytics"
\* close the timer, "Alerts" opens or closes it
handleSidebarClick_remote ==
    /\ app = "remote"
    /\ TakesEvents
    /\ \E label \in {"Papers", "Alerts", "Analytics"} :
          timerOpen' = IF label = "Alerts" THEN ~timerOpen ELSE FALSE
    /\ closedTimerStops(timerOpen')
    /\ othersOfTimerStep
    /\ UNCHANGED <<sessionType, secondsLeft, completedPomodoros, focusCalls, appended>>
    /\ UNCHANGED <<error, focusDb, focusEntries, productivityStats, computedAt>>

\* handleCloseTimer (both variants)
handleCloseTimer ==
    /\ TakesEvents
    /\ timerOpen
    /\ timerOpen' = FALSE
    /\ closedTimerStops(timerOpen')
    /\ othersOfTimerStep
    /\ UNCHANGED <<sessionType, secondsLeft, completedPomodoros, focusCalls, appended>>
    /\ UNCHANGED <<error, focusDb, focusEntries, productivityStats, computedAt>>

\* handleStartPauseTimer (both variants)
handleStartPauseTimer ==
    /\ TakesEvents
    /\ timerOpen
    /\ isRunning' = ~isRunning
    /\ othersOfTimerStep
    /\ UNCHANGED <<timerOpen, sessionType, secondsLeft, completedPomodoros, focusCalls, appended>>
    /\ UNCHANGED <<error, focusDb, focusEntries, productivityStats, computedAt>>

\* handleResetTimer of the local variant
handleResetTimer ==
    /\ app = "local"
    /\ TakesEvents
    /\ timerOpen
    /\ isRunning' = FALSE
    /\ setSession("focus")
    /\ beginSession("focus", focusCalls)
    /\ completedPomodoros' = 0
    /\ othersOfTimerStep
    /\ UNCHANGED <<timerOpen, error, focusDb, focusEntries, productivityStats, computedAt>>

\* handleResetTimer of the remote variant
handleResetTimer_remote ==
    /\ app = "remote"
    /\ TakesEvents
    /\ timerOpen
    /\ isRunning' = FALSE
    /\ setSession("focus")
    /\ beginSession("focus", focusCalls)
    /\ othersOfTimerStep
    /\ UNCHANGED <<timerOpen, completedPomodoros>>
    /\ UNCHANGED <<error, focusDb, focusEntries, productivityStats, computedAt>>

\* handleSessionSelect(type) (both variants)
handleSessionSelect ==
    /\ TakesEvents
    /\ timerOpen
    /\ \E type \in {"focus", "break"} : setSession(type) /\ beginSession(type, focusCalls)
    /\ isRunning' = FALSE
    /\ othersOfTimerStep
    /\ UNCHANGED <<timerOpen, completedPomodoros>>
    /\ UNCHANGED <<error, focusDb, focusEntries, productivityStats, computedAt>>

\* handleSkipSession of the local variant
handleSkipSession ==
    /\ app = "local"
    /\ TakesEvents
    /\ timerOpen
    /\ setSession(nextSessionOf(sessionType))
    /\ beginSession(nextSessionOf(sessionType), focusCalls)
    /\ isRunning' = FALSE
    /\ othersOfTimerStep
    /\ UNCHANGED <<timerOpen, completedPomodoros>>
    /\ UNCHANGED <<error, focusDb, focusEntries, productivityStats, computedAt>>

\* a call of recordFocusSession by a caller, up to the await of its insert
RecordingBy(caller) == [op |-> caller, pc |-> "insert", current |-> TRUE]

\* a continuation that leaves the timer as it runs
skipGoesOn_KeepsRunning(waiting) ==
    /\ setSession(nextSessionOf("focus"))
    /\ isRunning' = isRunning
    /\ focusCalls' = waiting

\* what handleSkipSession does after recordFocusSession: it has read sessionType
\* before the await, in a focus session
skipGoesOn(waiting) ==
    /\ setSession(nextSessionOf("focus"))
    /\ isRunning' = FALSE
    /\ focusCalls' = waiting

\* handleSkipSession of the remote variant: in a focus session up to the await of
\* recordFocusSession, in a break to its end
handleSkipSession_remote ==
    /\ app = "remote"
    /\ TakesEvents
    /\ timerOpen
    /\ IF sessionType = "focus"
       THEN /\ Len(focusCalls) + Len(focusDb) < MaxRecordings
            /\ focusCalls' = Append(focusCalls, RecordingBy("handleSkipSession"))
            /\ UNCHANGED <<sessionType, secondsLeft, isRunning, appended>>
       ELSE /\ setSession(nextSessionOf(sessionType))
            /\ beginSession(nextSessionOf(sessionType), focusCalls)
            /\ isRunning' = FALSE
    /\ othersOfTimerStep
    /\ UNCHANGED <<timerOpen, completedPomodoros>>
    /\ UNCHANGED <<error, focusDb, focusEntries, productivityStats, computedAt>>

\* a tick that takes two seconds off
secondsAfterTick_ByTwo(seconds) == IF seconds - 2 > 0 THEN seconds - 2 ELSE 0

\* Math.max(0, prev - 1)
secondsAfterTick(seconds) == IF seconds - 1 > 0 THEN seconds - 1 ELSE 0

\* the callback of the interval the countdown effect has set. The backend
\* answers a request within the second: no second passes while a call waits.
\* The countdown is followed while there is room for a record.
Tick ==
    /\ \/ app = "local" /\ ~dirty
       \/ app = "remote"
    /\ isRunning
    /\ secondsLeft > 0
    /\ focusCalls = <<>>
    /\ Len(focusDb) < MaxRecordings
    /\ (secondsLeft = 1 /\ sessionType = "focus") => completedPomodoros < MaxPomodoros
    /\ secondsLeft' = secondsAfterTick(secondsLeft)
    /\ othersOfTimerStep
    /\ UNCHANGED <<timerOpen, sessionType, isRunning, completedPomodoros, focusCalls, appended>>
    /\ UNCHANGED <<error, focusDb, focusEntries, productivityStats, computedAt>>

\* a transition that leaves the timer running
countdownEnds_KeepsRunning(type) ==
    /\ isRunning' = isRunning
    /\ setSession(nextSessionOf(type))

\* the branch secondsLeft <= 0 of the countdown effect, but for the record
countdownEnds(type) ==
    /\ isRunning' = FALSE
    /\ setSession(nextSessionOf(type))

\* the countdown effect of the local variant with a transition to make
CountdownEffect ==
    /\ app = "local"
    /\ isRunning
    /\ secondsLeft <= 0
    /\ countdownEnds(sessionType)
    /\ completedPomodoros' =
           IF sessionType = "focus" THEN completedPomodoros + 1 ELSE completedPomodoros
    /\ beginSession(nextSessionOf(sessionType), focusCalls)
    /\ othersOfTimerStep
    /\ UNCHANGED <<timerOpen, error, focusDb, focusEntries, productivityStats, computedAt>>

\* the countdown effect of the remote variant with a transition to make; it
\* calls recordFocusSession and does not wait for it
CountdownEffect_remote ==
    /\ app = "remote"
    /\ isRunning
    /\ secondsLeft <= 0
    /\ countdownEnds(sessionType)
    /\ beginSession(nextSessionOf(sessionType),
                    IF sessionType = "focus"
                    THEN Append(focusCalls, RecordingBy("effect"))
                    ELSE focusCalls)
    /\ othersOfTimerStep
    /\ UNCHANGED <<timerOpen, completedPomodoros>>
    /\ UNCHANGED <<error, focusDb, focusEntries, productivityStats, computedAt>>

\* the focus_entries row the backend stores for an insert
insertedFocusRow ==
    FocusRow(randomUUID(Len(focusDb)), FOCUS_DURATION, toISOString(DateAt(now)))

\* the calls in flight without the one at position i
FinishedRecording(i) == SubSeq(focusCalls, 1, i - 1) \o SubSeq(focusCalls, i + 1, Len(focusCalls))

\* the caller of a call of recordFocusSession goes on after it
callerGoesOn(i) ==
    IF focusCalls[i].op = "handleSkipSession"
    THEN skipGoesOn(FinishedRecording(i))
    ELSE focusCalls' = FinishedRecording(i) /\ UNCHANGED <<sessionType, secondsLeft, isRunning>>

\* the insert of recordFocusSession is answered: with an error, and the call
\* returns, or with the row stored, and the call goes on into loadFocusEntries
\* up to the await of its select
AnswerFocusInsert ==
    /\ app = "remote"
    /\ ~(isRunning /\ secondsLeft <= 0)
    /\ \E i \in 1..Len(focusCalls) :
          /\ focusCalls[i].pc = "insert"
          /\ \/ /\ error' = ErrorMessage("error.message")
                /\ callerGoesOn(i)
                /\ UNCHANGED <<focusDb, appended>>
             \/ /\ Len(focusDb) < MaxRecordings
                /\ focusDb' = Append(focusDb, insertedFocusRow)
                /\ appended' = IF focusCalls[i].current THEN appended + 1 ELSE appended
                /\ error' = Null
                /\ focusCalls' = [focusCalls EXCEPT ![i].pc = "select"]
                /\ UNCHANGED <<sessionType, secondsLeft, isRunning>>
    /\ othersOfTimerStep
    /\ UNCHANGED <<timerOpen, completedPomodoros, focusEntries, productivityStats, computedAt>>

\* the select of loadFocusEntries is answered, with an error or with the rows;
\* recordFocusSession returns and its caller goes on
AnswerFocusSelect ==
    /\ app = "remote"
    /\ ~(isRunning /\ secondsLeft <= 0)
    /\ \E i \in 1..Len(focusCalls) :
          /\ focusCalls[i].pc = "select"
          /\ \/ /\ error' = ErrorMessage("error.message")
                /\ setFocusEntries(<<>>)
             \/ /\ setFocusEntries(mappedFocusEntries(selectedFocusRows(focusDb, cutoffAt(now)),
                                                     now))
                /\ UNCHANGED error
          /\ callerGoesOn(i)
    /\ othersOfTimerStep
    /\ UNCHANGED <<timerOpen, completedPomodoros, focusDb, appended>>

\* the local App mounted on a stored state, its effects run
TimerInit_local ==
    /\ app = "local"
    /\ lsItem = JSON_stringify(TwoSubjects)
    /\ storedValue = readValue(lsItem, createDefaultState(0))
    /\ rnd = 1
    /\ dirty = FALSE
    /\ lastActiveId = Get(storedValue, "activeSubjectId")
    /\ form = createEmptyForm
    /\ editingId = Null
    /\ editForm = createEmptyForm
    /\ submitted = NoSubmit
    /\ SubjectFormIdle
    /\ RemoteIdle
    /\ NormIdle
    /\ PayIdle
    /\ FocusIdle

\* the remote App of a signed-in user who has no subject and no focus entry yet
TimerInit_remote ==
    /\ app = "remote"
    /\ user = Str(<<"u", "s", "e", "r">>)
    /\ subjects = <<>>
    /\ activeSubjectId = Null
    /\ error = Null
    /\ isLoading = FALSE
    /\ db = <<>>
    /\ calls = <<>>
    /\ rnd = 0
    /\ form = createEmptyForm_remote
    /\ editingId = Null
    /\ editForm = createEmptyForm_remote
    /\ submitted = NoSubmit
    /\ SubjectFormIdle
    /\ lsItem = Absent
    /\ storedValue = Undef
    /\ dirty = FALSE
    /\ lastActiveId = Undef
    /\ NormIdle
    /\ PayIdle
    /\ FocusIdle

TimerInit == TimerInit_local \/ TimerInit_remote

TimerNext ==
    \/ handleSidebarClick
    \/ handleSidebarClick_remote
    \/ handleCloseTimer
    \/ handleStartPauseTimer
    \/ handleResetTimer
    \/ handleResetTimer_remote
    \/ handleSessionSelect
    \/ handleSkipSession
    \/ handleSkipSession_remote
    \/ Tick
    \/ CountdownEffect
    \/ CountdownEffect_remote
    \/ AnswerFocusInsert
    \/ AnswerFocusSelect

SpecTimer == TimerInit /\ [][TimerNext]_vars

(***************************************************************************)
(* Properties of the normalizer.                                           *)
(***************************************************************************)
SubjectsOf(state) == Get(state, "subjects").a
ExamsOf(subject) == Get(subject, "exams").a
Normalized == nStage \in {"normalized", "renormalized"}

\* C1: whatever value is passed to normalizeStoredValue, the returned state has at
\* least one subject and its activeSubjectId is the id of one of the returned subjects.
C1_ActiveSubjectListed ==
    Normalized =>
        /\ Len(SubjectsOf(nResult.state)) >= 1
        /\ \E i \in 1..Len(SubjectsOf(nResult.state)) :
              Get(SubjectsOf(nResult.state)[i], "id") = Get(nResult.state, "activeSubjectId")

\* C1 witness: a subjects array was sanitized to two subjects and the caller's
\* activeSubjectId named none of them.
C1_Witness ==
    /\ nStage = "normalized"
    /\ ~nResult.same
    /\ nValue.t = "obj"
    /\ Get(nValue, "activeSubjectId") = Str(<<"z">>)
    /\ Len(SubjectsOf(nResult.state)) = 2
    /\ Get(nResult.state, "activeSubjectId") = Get(SubjectsOf(nResult.state)[1], "id")

\* C2: for a malformed input, every returned subject has a non-empty id different
\* from every other returned subject's id, and the exam ids within each returned
\* subject are pairwise distinct.
C2_IdsUnique ==
    (Normalized /\ ~isValidAppState(nValue)) =>
        LET listed == SubjectsOf(nResult.state) IN
        /\ \A i \in 1..Len(listed) : IsNonBlankString(Get(listed[i], "id"))
        /\ \A i, j \in 1..Len(listed) :
              i # j => Get(listed[i], "id") # Get(listed[j], "id")
        /\ \A i \in 1..Len(listed) :
              \A a, b \in 1..Len(ExamsOf(listed[i])) :
                 a # b => Get(ExamsOf(listed[i])[a], "id") # Get(ExamsOf(listed[i])[b], "id")

\* C3: for every input, every exam of every subject of the returned state has a
\* completion within [0,100].
C3_CompletionInRange ==
    Normalized =>
        \A i \in 1..Len(SubjectsOf(nResult.state)) :
           \A a \in 1..Len(ExamsOf(SubjectsOf(nResult.state)[i])) :
              LET completion == Get(ExamsOf(SubjectsOf(nResult.state)[i])[a], "completion") IN
              /\ TypeOf(completion) = "number"
              /\ NumIsFinite(completion.n)
              /\ completion.n.v >= 0
              /\ completion.n.v <= 100

\* C4: a state that isValidAppState accepts is returned as the very same object,
\* and normalizing the result again returns that same object again.
C4_ValidReturnedUnchanged ==
    /\ (Normalized /\ isValidAppState(nValue)) =>
          (nResult.same /\ nResult.state = nValue)
    /\ (nStage = "renormalized" /\ isValidAppState(nValue)) =>
          (nAgain.same /\ nAgain.state = nResult.state)

\* C4 witness: a valid state of two subjects, one with a name the sanitizer would
\* trim, went through the normalizer twice.
C4_Witness ==
    /\ nStage = "renormalized"
    /\ isValidAppState(nValue)
    /\ Len(SubjectsOf(nValue)) = 2
    /\ \E i \in 1..2 : Get(SubjectsOf(nValue)[i], "name").s # Trim(Get(SubjectsOf(nValue)[i], "name").s)
    /\ nAgain.state = nValue

(***************************************************************************)
(* Properties of the payload builder.                                      *)
(***************************************************************************)
Built == pLocal # Undef /\ pRemote # Undef

\* C7: prepareExamPayload returns null exactly when the paper entry, trimmed, is
\* empty, whatever the other entries are, in both variants.
C7_NullIffBlankPaper ==
    /\ pLocal # Undef => ((pLocal = Null) <=> (Trim(pForm.paper) = <<>>))
    /\ pRemote # Undef => ((pRemote = Null) <=> (Trim(pForm.paper) = <<>>))

\* C7 witness: a paper of spaces only was rejected by both variants although the
\* numeric entries were filled in.
C7_Witness ==
    /\ Built
    /\ pForm.paper = <<" ">>
    /\ pForm.mcq = <<"1", "0">>
    /\ pLocal = Null
    /\ pRemote = Null

\* the total entry is absent, empty or does not parse to a finite number
TotalNotProvided(given) == given.total = <<>> \/ ~NumIsFinite(StringToNumber(given.total))

\* C8: when the total entry is absent, empty or unparseable the returned total is
\* the returned mcq plus the returned essay; in the remote variant this holds for
\* every form.
C8_TotalIsSumOfFloored ==
    /\ (pLocal \notin {Undef, Null} /\ TotalNotProvided(pForm)) =>
          Get(pLocal, "total").n = NumAdd(Get(pLocal, "mcq").n, Get(pLocal, "essay").n)
    /\ pRemote \notin {Undef, Null} =>
          Get(pRemote, "total").n = NumAdd(Get(pRemote, "mcq").n, Get(pRemote, "essay").n)

InRange(x, lo, hi) == NumIsFinite(x) /\ x.v >= lo /\ x.v <= hi

NonNegative(x) == NumIsFinite(x) /\ x.v >= 0

PayloadInRange(payload) ==
    /\ NonNegative(Get(payload, "mcq").n)
    /\ NonNegative(Get(payload, "essay").n)
    /\ NonNegative(Get(payload, "total").n)
    /\ InRange(Get(payload, "completion").n, 0, 100)

PayloadDefaults(payload) ==
    /\ StringToNumber(pForm.mcq) = NaN => Get(payload, "mcq").n = Fin(0)
    /\ StringToNumber(pForm.essay) = NaN => Get(payload, "essay").n = Fin(0)
    /\ StringToNumber(pForm.completion) = NaN => Get(payload, "completion").n = Fin(0)
    /\ (NumIsFinite(StringToNumber(pForm.completion))
        /\ StringToNumber(pForm.completion).v > 100) => Get(payload, "completion").n = Fin(100)

\* C9: every payload returned has mcq, essay and total at or above 0 and completion
\* within [0,100]; an entry for mcq, essay or completion that is no number becomes 0,
\* a completion above 100 becomes 100, and a total entry that is given and parses
\* becomes max(0, total).
C9_PayloadRanges ==
    /\ pLocal \notin {Undef, Null} =>
          /\ PayloadInRange(pLocal)
          /\ PayloadDefaults(pLocal)
          /\ ~TotalNotProvided(pForm) =>
                Get(pLocal, "total").n = NumMax(Fin(0), StringToNumber(pForm.total))
    /\ pRemote \notin {Undef, Null} =>
          /\ PayloadInRange(pRemote)
          /\ PayloadDefaults(pRemote)

\* C9 witness: negative mcq and total entries, an essay that is no number and a
\* completion of 150 were built into a payload by both variants.
C9_Witness ==
    /\ Built
    /\ pForm.mcq = <<"-", "5">>
    /\ pForm.essay = <<"x">>
    /\ pForm.total = <<"-", "4">>
    /\ pForm.completion = <<"1", "5", "0">>
    /\ pLocal # Null
    /\ pRemote # Null
    /\ Get(pLocal, "total").n = Fin(0)
    /\ Get(pLocal, "completion").n = Fin(100)


(***************************************************************************)
(* Properties of the App component and its storage.                        *)
(***************************************************************************)
\* C5: whatever the storage key holds (nothing, a text that is no JSON, or any JSON
\* document), reading it and normalizing what was read never ends in an error:
\* readValue returns a value, and the normalized state is a valid AppState.
C5_ReadAndNormalizeNeverFail ==
    app = "local" => (storedValue # Thrown /\ isValidAppState(normalizedState))

\* C5 witness: the key holds a text that is no JSON; the App has mounted on it with
\* the default state, which normalizes to itself.
C5_Witness ==
    /\ app = "local"
    /\ lsItem = Garbage
    /\ dirty
    /\ storedValue = createDefaultState(0)
    /\ normalizedState = storedValue

\* C6: every state that isValidAppState accepts, once written to the storage key,
\* read back and normalized, gives a state equal to the one written.
C6_RoundTrip ==
    [][(Mount /\ isValidAppState(storedValue)) =>
          normalizeStoredValue(storedValue', rnd').state = storedValue]_vars

\* C10: a submission of the add form or of the edit form for which
\* prepareExamPayload returns null changes neither the subjects, their exams and
\* the activeSubjectId, nor the stored item, and leaves no write pending and no
\* request to the backend in flight that was not there before.
C10_NullPayloadNoMutation ==
    [][(submitted'.op \in {"handleAddExam", "handleUpdateExam"} /\ submitted'.payload = Null) =>
          UNCHANGED <<storedValue, lsItem, dirty, rnd, subjects, activeSubjectId, db, calls,
                      error>>]_vars

\* C10 witness: the edit form of the local variant was submitted with a paper of
\* spaces only while an exam was being edited.
C10_Witness ==
    /\ app = "local"
    /\ submitted = [op |-> "handleUpdateExam", payload |-> Null]
    /\ Truthy(editingId)
    /\ editForm.paper = <<" ">>
    /\ ~dirty
    /\ lsItem = JSON_stringify(storedValue)

\* the add form of the remote variant was submitted with a blank paper while two
\* subjects were listed
RemoteSubmissionRejected ==
    /\ app = "remote"
    /\ submitted = [op |-> "handleAddExam", payload |-> Null]
    /\ Len(subjects) = 2
    /\ calls = <<>>

(***************************************************************************)
(* Properties of the focus analytics. The windows are stated on the local  *)
(* calendar day of an instant, counted from 1 January 2025.                *)
(***************************************************************************)
DayOfInstant(instant) == (instant + zone) \div SECONDS_PER_DAY

\* the local calendar day of the i-th focus entry
DayOfEntry(i) == DayOfInstant(focusEntries[i].timestamp.iso)

\* the sum of the durations of the focus entries at the positions in S
RECURSIVE DurationOver(_)
DurationOver(S) ==
    IF S = {} THEN 0
    ELSE LET i == CHOOSE i \in S : TRUE
         IN focusEntries[i].duration.n.v + DurationOver(S \ {i})

\* the positions of the focus entries on the local days first..last
EntriesOfDays(first, last) ==
    {i \in 1..Len(focusEntries) : DayOfEntry(i) >= first /\ DayOfEntry(i) <= last}

\* the positions of the focus entries on or after the local day first
EntriesFromDay(first) == {i \in 1..Len(focusEntries) : DayOfEntry(i) >= first}

\* the local day on which the kept statistics were computed
ComputedDay == DayOfInstant(computedAt)

\* C11: the day total computed at an instant is the sum of the durations of
\* exactly the entries stamped at or after the start of the local day of that
\* instant: entries of earlier days are left out, entries later that day are in.
C11_DayTotal ==
    app = "remote" =>
        /\ productivityStats.day.totalSeconds = Fin(DurationOver(EntriesFromDay(ComputedDay)))
        /\ Len(productivityStats.day.entries) = Cardinality(EntriesFromDay(ComputedDay))
        /\ \A k \in 1..Len(productivityStats.day.entries) :
              \E i \in EntriesFromDay(ComputedDay) :
                  focusEntries[i].id = productivityStats.day.entries[k]

\* entries of today 01:00 (300 s), today 23:00 (600 s) and yesterday 23:59
\* (900 s) evaluated today at 12:00: the day total is 900
C11_Witness ==
    /\ app = "remote"
    /\ computedAt = InstantAt(Today, 12, 0, zone)
    /\ Len(focusEntries) = 3
    /\ focusEntries[1].timestamp = toISOString(DateAt(InstantAt(Today - 1, 23, 59, zone)))
    /\ focusEntries[1].duration = Num(Fin(900))
    /\ focusEntries[2].timestamp = toISOString(DateAt(InstantAt(Today, 1, 0, zone)))
    /\ focusEntries[3].timestamp = toISOString(DateAt(InstantAt(Today, 23, 0, zone)))
    /\ productivityStats.day.totalSeconds = Fin(900)
    /\ productivityStats.day.entries = <<focusEntries[2].id, focusEntries[3].id>>

\* the short weekday name of a local day
WeekdayOfDay(day) == WeekdayLabels[((day + 3) % 7) + 1]

\* C12: the week breakdown has at most 7 buckets, one for each calendar day from
\* six days before the day of computation up to that day, in order, none for a
\* later day, and the value of each bucket is the sum of the durations of the
\* entries stamped on the calendar day of the bucket.
C12_WeekBreakdown ==
    app = "remote" =>
        LET breakdown == productivityStats.week.breakdown
        IN /\ Len(breakdown) <= 7
           /\ Len(breakdown) = 7
           /\ \A k \in 1..Len(breakdown) :
                 /\ ComputedDay - 7 + k <= ComputedDay
                 /\ breakdown[k].label = WeekdayOfDay(ComputedDay - 7 + k)
                 /\ breakdown[k].totalSeconds =
                        Fin(DurationOver(EntriesOfDays(ComputedDay - 7 + k, ComputedDay - 7 + k)))

\* entries on the first instant of the week window, just before it, and late on
\* the day of computation
C12_Witness ==
    /\ app = "remote"
    /\ computedAt = InstantAt(Today, 12, 0, zone)
    /\ Len(focusEntries) = 3
    /\ focusEntries[1].timestamp = toISOString(DateAt(InstantAt(Today - 7, 23, 59, zone)))
    /\ focusEntries[2].timestamp = toISOString(DateAt(InstantAt(Today - 6, 0, 0, zone)))
    /\ focusEntries[3].timestamp = toISOString(DateAt(InstantAt(Today, 23, 0, zone)))
    /\ productivityStats.week.breakdown[1].totalSeconds = Fin(300)
    /\ productivityStats.week.breakdown[7].totalSeconds = Fin(600)
    /\ productivityStats.week.totalSeconds = Fin(900)

\* the first and the last local day of the k-th period of the month breakdown
PeriodFirstDay(k) == ComputedDay - 29 + 7 * (k - 1)

PeriodLastDay(k) ==
    IF PeriodFirstDay(k) + 6 > ComputedDay THEN ComputedDay ELSE PeriodFirstDay(k) + 6

\* C13: the month breakdown has one bucket for each run of 7 days from 29 days
\* before the day of computation, the last one ending on that day, and the value
\* of each bucket is the sum of the durations of the entries of the month window
\* stamped on any calendar day of its period, the first and the last included.
C13_MonthBreakdown ==
    app = "remote" =>
        LET breakdown == productivityStats.month.breakdown
        IN /\ Len(breakdown) = 5
           /\ \A k \in 1..Len(breakdown) :
                 breakdown[k].totalSeconds =
                     Fin(DurationOver(EntriesOfDays(PeriodFirstDay(k), PeriodLastDay(k))))

\* the number of buckets of a breakdown that counted the entry of an id
TimesCounted(breakdown, id) ==
    Cardinality({<<k, j>> \in (1..Len(breakdown)) \X (1..MaxEntries + 1) :
                    j <= Len(breakdown[k].counted) /\ breakdown[k].counted[j] = id})

RECURSIVE TotalOfBuckets(_)
TotalOfBuckets(breakdown) ==
    IF breakdown = <<>> THEN 0
    ELSE breakdown[1].totalSeconds.v + TotalOfBuckets(Tail(breakdown))

\* C14: every focus entry adds its duration to at most one bucket of the week
\* breakdown and to at most one bucket of the month breakdown, so the buckets of
\* a window never add up to more than the total of the window.
C14_NoDoubleCounting ==
    app = "remote" =>
        /\ \A i \in 1..Len(focusEntries) :
              /\ TimesCounted(productivityStats.week.breakdown, focusEntries[i].id) <= 1
              /\ TimesCounted(productivityStats.month.breakdown, focusEntries[i].id) <= 1
        /\ TotalOfBuckets(productivityStats.week.breakdown)
               <= productivityStats.week.totalSeconds.v
        /\ TotalOfBuckets(productivityStats.month.breakdown)
               <= productivityStats.month.totalSeconds.v

\* an entry on the first instant of the second period of the month and one on the
\* day of computation, each counted once in the week or the month breakdown
C14_Witness ==
    /\ app = "remote"
    /\ computedAt = InstantAt(Today, 12, 0, zone)
    /\ \E i \in 1..Len(focusEntries) :
          /\ focusEntries[i].timestamp = toISOString(DateAt(InstantAt(Today - 22, 0, 0, zone)))
          /\ TimesCounted(productivityStats.month.breakdown, focusEntries[i].id) = 1
          /\ productivityStats.month.breakdown[2].counted = <<focusEntries[i].id>>
    /\ \E i \in 1..Len(focusEntries) :
          /\ focusEntries[i].timestamp = toISOString(DateAt(InstantAt(Today, 1, 0, zone)))
          /\ TimesCounted(productivityStats.week.breakdown, focusEntries[i].id) = 1

\* C15: at every instant the day total shown by the analytics panel and the
\* count of focus sessions completed today shown by the timer cover exactly the
\* entries of the local day of that instant, also after midnight has passed
\* with no change to the focus entries.
C15_TotalsResetAtMidnight ==
    app = "remote" =>
        /\ productivityStats.day.totalSeconds
               = Fin(DurationOver(EntriesFromDay(DayOfInstant(now))))
        /\ Len(productivityStats.day.entries)
               = Cardinality(EntriesFromDay(DayOfInstant(now)))

(***************************************************************************)
(* The timer (C16 to C19).                                                 *)
(***************************************************************************)
\* a step in which handleSkipSession of the remote variant goes on after its await
SkipGoesOnStep ==
    /\ AnswerFocusInsert \/ AnswerFocusSelect
    /\ \E i \in 1..Len(focusCalls) :
          focusCalls[i].op = "handleSkipSession" /\ focusCalls' = FinishedRecording(i)

\* a step of a session transition, a skip, a reset or a session selection
SessionIsSetStep ==
    \/ CountdownEffect
    \/ CountdownEffect_remote
    \/ handleSkipSession
    \/ handleSkipSession_remote
    \/ SkipGoesOnStep
    \/ handleResetTimer
    \/ handleResetTimer_remote
    \/ handleSessionSelect

\* C16: in every reachable state secondsLeft lies between 0 and the full
\* duration of the current session type; a tick lowers it by exactly 1 and not
\* below 0; and it increases only in a step of a session transition, a skip, a
\* reset or a session selection.
C16_SecondsLeftBounds ==
    /\ [](secondsLeft >= 0 /\ secondsLeft <= sessionDurationOf(sessionType))
    /\ [][Tick => (secondsLeft' = secondsLeft - 1 /\ secondsLeft' >= 0)]_vars
    /\ [][secondsLeft' > secondsLeft => SessionIsSetStep]_vars

\* C16 witness: the countdown of a focus session of the remote variant has
\* ticked down to zero
C16_Witness ==
    /\ app = "remote"
    /\ isRunning
    /\ sessionType = "focus"
    /\ secondsLeft = 0

\* the rows of focus_entries grow by the one row of a call whose insert is answered
OneRowOfOneCall ==
    \E i \in 1..Len(focusCalls) :
        /\ focusCalls[i].pc = "insert"
        /\ focusCalls' = [focusCalls EXCEPT ![i].pc = "select"]
        /\ focusDb' = Append(focusDb, insertedFocusRow)

\* the record of a countdown that ended in a session of the type: a completed
\* pomodoro in the local variant, a call of recordFocusSession in the remote one
RecordOfCountdown(type) ==
    /\ app = "local" =>
           completedPomodoros' = completedPomodoros + (IF type = "focus" THEN 1 ELSE 0)
    /\ app = "remote" =>
           /\ focusCalls' = IF type = "focus"
                            THEN Append(focusCalls, RecordingBy("effect"))
                            ELSE Earlier(focusCalls)
           /\ focusDb' = focusDb

C18_NoDoubleRecording == appended <= 1

\* C19: a step that closes the timer sets isRunning to false and leaves
\* secondsLeft and sessionType as they are, and no step taken while the timer
\* is closed changes secondsLeft or sessionType, so that the timer reopens
\* with the values it was closed with.
C19_ClosedTimerKeepsSession ==
    /\ [][(timerOpen /\ ~timerOpen') =>
              (~isRunning' /\ UNCHANGED <<secondsLeft, sessionType>>)]_vars
    /\ [][~timerOpen => UNCHANGED <<secondsLeft, sessionType>>]_vars

(***************************************************************************)
(* Failing requests of the remote variant (C20).                           *)
(***************************************************************************)
\* a step in which a call learns that its request has failed
FailedRequestStep ==
    \E i \in 1..Len(calls) :
        /\ calls[i].pc \in {"failed", "select-failed"}
        /\ calls' = Finished(i)

\* C20: when a request of the remote variant has failed, an error message is
\* set and the subjects, with their exams, keep the values they had.
C20_FailureKeepsState ==
    [][FailedRequestStep => (error' # Null /\ UNCHANGED <<subjects, focusEntries>>)]_vars

(***************************************************************************)
(* The normalizer applied to stored values that need repair: subjects      *)
(* arrays and exams arrays with elements of every type, and every kind of  *)
(* activeSubjectId.                                                        *)
(***************************************************************************)
\* elements of a stored subjects array
StoredSubjects ==
    { Subject(<<"s", "1">>, <<"M", "a", "t", "h">>, <<>>),
      Subject(<<"s", "2">>, <<" ", "B", "i", "o", " ">>, <<>>),
      Obj([id |-> Str(<<" ">>), exams |-> Null]),
      Arr(<<>>),
      Null,
      Num(Fin(5)),
      Str(<<"x">>),
      Bool(TRUE) }

\* elements of a stored exams array
StoredExams ==
    { Exam(<<"e", "1">>, <<"P">>, Fin(1), Fin(2), Fin(3), Fin(50)),
      Obj([paper |-> Str(<<" ">>), total |-> Str(<<"x">>)]),
      Arr(<<>>),
      Null,
      Num(Fin(0)),
      Str(<<"x">>) }

StoredActiveIds ==
    {Undef, Null, Num(Fin(7)), Str(<<" ">>), Str(<<"s", "1">>), Str(<<"s", "2">>), Str(<<"z">>)}

StoredShapes ==
    {RawState(ss, <<>>, a) : ss \in SeqsUpTo(StoredSubjects, MaxSubjects), a \in StoredActiveIds}
    \cup {RawState(<<Subject(<<"s", "1">>, <<"M", "a", "t", "h">>, <<>>)>>, es, Str(<<"s", "1">>)) :
             es \in SeqsUpTo(StoredExams, MaxExams)}
    \cup {Arr(es) : es \in SeqsUpTo(StoredExams, MaxExams)}
    \cup {Undef, Null, Num(Fin(5)), Str(<<"x">>), Bool(TRUE), Obj([subjects |-> Null]),
          Obj([subjects |-> Obj([length |-> Num(Fin(1))])]),
          Obj([activeSubjectId |-> Str(<<"s", "1">>)])}

RepairInit ==
    /\ nStage = "input"
    /\ nValue \in StoredShapes
    /\ nResult = NoResult
    /\ nAgain = NoResult
    /\ PayIdle
    /\ LocalIdle
    /\ RemoteIdle
    /\ FocusIdle

SpecRepair == RepairInit /\ [][NormNext]_vars

(***************************************************************************)
(* Stored exams, field by field: each field of a raw exam is absent or     *)
(* holds one of the values listed for it.  The exam is the last element of *)
(* a stored bare array, alone or after one other element, so that it is    *)
(* sanitized at index 0 and at index 1.                                    *)
(***************************************************************************)
ExamFields == {"id", "paper", "mcq", "essay", "total", "completion"}

ExamFieldOptions ==
    [id |-> {Absent, Str(<<" ">>), Str(<<"e", "1">>), Num(Fin(7))},
     paper |-> {Absent, Str(<<" ">>), Str(<<" ", "Q", " ">>), Num(Fin(7))},
     mcq |-> {Absent, Null, Num(Fin(3)), Str(<<"x">>), Num(PosInf)},
     essay |-> {Absent, Num(Fin(4)), Str(<<"x">>)},
     total |-> {Absent, Null, Num(Fin(9)), Str(<<"1", "2">>), Str(<<"x">>), Num(PosInf)},
     completion |-> {Absent, Null, Num(Fin(50)), Num(Fin(150)), Num(Fin(-5)),
                     Str(<<"x">>), Num(PosInf)}]

\* the object that holds the fields chosen to be present
RawExamOf(chosen) ==
    Obj([field \in {f \in ExamFields : chosen[f] # Absent} |-> chosen[field]])

FieldwiseExams ==
    {RawExamOf(chosen) :
        chosen \in {c \in [ExamFields -> UNION {ExamFieldOptions[f] : f \in ExamFields}] :
                       \A f \in ExamFields : c[f] \in ExamFieldOptions[f]}}

ExamInit ==
    /\ nStage = "input"
    /\ \E raw \in FieldwiseExams, before \in {<<>>, <<Null>>, <<Arr(<<>>)>>} :
          nValue = Arr(before \o <<raw>>)
    /\ nResult = NoResult
    /\ nAgain = NoResult
    /\ PayIdle
    /\ LocalIdle
    /\ RemoteIdle
    /\ FocusIdle

SpecExam == ExamInit /\ [][NormNext]_vars

(***************************************************************************)
(* The page loaded on stored documents of every shape the repair branches  *)
(* tell apart.                                                             *)
(***************************************************************************)
ReconcileItems ==
    {Absent, Garbage} \cup {JSON_stringify(v) : v \in {s \in StoredShapes : s # Undef}}

ReconcileInit == StorageHolds(ReconcileItems) /\ NormIdle /\ PayIdle

SpecReconcile == ReconcileInit /\ [][StorageNext]_vars

(***************************************************************************)
(* insightStats, the memo of both variants of the App (the same text in    *)
(* part_006 and part_007), as a function of the exams and the active       *)
(* subject of a render.                                                    *)
(***************************************************************************)
\* the character U+2014
S_EmDash == <<"em-dash">>
S_AddPaperTotals == <<"A", "d", "d", " ", "a", " ", "p", "a", "p", "e", "r", " ", "t", "o", " ", "s", "e", "e", " ", "t", "o", "t", "a", "l", "s">>
S_AddPaperTrends == <<"A", "d", "d", " ", "a", " ", "p", "a", "p", "e", "r", " ", "t", "o", " ", "s", "e", "e", " ", "t", "r", "e", "n", "d", "s">>
S_thisSubject == <<"t", "h", "i", "s", " ", "s", "u", "b", "j", "e", "c", "t">>
S_paper == <<" ", "p", "a", "p", "e", "r">>
S_trackedIn == <<" ", "t", "r", "a", "c", "k", "e", "d", " ", "i", "n", " ">>

\* a - b
NumSub(a, b) == NumAdd(a, NumNeg(b))

\* a comparator that sorts by ascending total
compareTotals_Ascending(a, b) == NumSub(Get(a, "total").n, Get(b, "total").n)

\* (a, b) => b.total - a.total
compareTotals(a, b) == NumSub(Get(b, "total").n, Get(a, "total").n)

\* the comparator's result is above zero: a is ordered after b (NaN counts as 0)
OrderedAfter(a, b) ==
    LET v == compareTotals(a, b) IN (v.k = "inf" /\ v.v = 1) \/ (v.k = "fin" /\ v.v > 0)

\* Array.prototype.sort is stable: an element goes before the elements ordered
\* after it and behind all others placed so far
RECURSIVE InsertSorted(_, _)
InsertSorted(sorted, x) ==
    IF sorted = <<>> THEN <<x>>
    ELSE IF OrderedAfter(sorted[Len(sorted)], x)
    THEN InsertSorted(SubSeq(sorted, 1, Len(sorted) - 1), x) \o <<sorted[Len(sorted)]>>
    ELSE sorted \o <<x>>

\* [...exams].sort((a, b) => b.total - a.total), the first k exams being sorted
RECURSIVE sortedByTotal(_, _)
sortedByTotal(list, k) ==
    IF k = 0 THEN <<>> ELSE InsertSorted(sortedByTotal(list, k - 1), list[k])

\* Math.max(0, Math.min(100, completion))
clampedCompletion(exam) == NumMax(Fin(0), NumMin(Fin(100), Get(exam, "completion").n))

\* exams.reduce((acc, exam) => acc + clamped, 0) over the first k exams
RECURSIVE completionSum(_, _)
completionSum(list, k) ==
    IF k = 0 THEN Fin(0) ELSE NumAdd(completionSum(list, k - 1), clampedCompletion(list[k]))

\* Math.round(sum / count) for a sum that is a whole number, zero or more
roundedMean(sum, count) ==
    IF sum.k = "fin" THEN Fin((2 * sum.v + count) \div (2 * count)) ELSE sum

\* Number.prototype.toFixed(3) of a whole number below 1e21, Infinity or NaN
toFixed3(x) == IF x.k = "fin" THEN IntToString(x.v) \o <<".", "0", "0", "0">> ELSE NumberToString(x)

insightStatsOf(list, subject) ==
    IF Len(list) = 0
    THEN [highestTotal |-> S_EmDash,
          highestTotalPaper |-> S_AddPaperTotals,
          averageCompletion |-> S_EmDash,
          completionHint |-> S_AddPaperTrends]
    ELSE [highestTotal |-> toFixed3(Get(sortedByTotal(list, Len(list))[1], "total").n),
          highestTotalPaper |-> Get(sortedByTotal(list, Len(list))[1], "paper").s,
          averageCompletion |->
              NumberToString(roundedMean(completionSum(list, Len(list)), Len(list))) \o <<"%">>,
          completionHint |->
              NatToString(Len(list)) \o S_paper \o (IF Len(list) > 1 THEN <<"s">> ELSE <<>>)
                  \o S_trackedIn
                  \o (IF Truthy(subject) THEN Get(subject, "name").s ELSE S_thisSubject)]

\* the memo of the local variant
insightStats == insightStatsOf(exams, activeSubject)

\* the memo of the remote variant
insightStats_remote == insightStatsOf(exams_remote, activeSubject_remote)

(***************************************************************************)
(* Stored states for the insight memo: one subject whose exams tie in      *)
(* total, exceed the range of a double, and have completions outside       *)
(* [0,100].                                                                *)
(***************************************************************************)
ExamText(id, paper, total, completion) ==
    Obj([id |-> Str(id), paper |-> Str(paper), mcq |-> Numeral(<<"0">>),
         essay |-> Numeral(<<"0">>), total |-> Numeral(total), completion |-> Numeral(completion)])

InsightExamTexts ==
    { ExamText(<<"e", "1">>, <<"A">>, <<"9">>, <<"5", "0">>),
      ExamText(<<"e", "2">>, <<"B">>, <<"9">>, <<"7", "5">>),
      ExamText(<<"e", "3">>, <<"C">>, <<"5">>, <<"1", "5", "0">>),
      ExamText(<<"e", "4">>, <<"D">>, <<"1", "e", "9", "9", "9">>, <<"-", "5">>),
      ExamText(<<"e", "5">>, <<"E">>, <<"1", "e", "9", "9", "9">>, <<"1", "0", "0">>),
      ExamText(<<"e", "6">>, <<"F">>, <<"-", "4">>, <<"1", "e", "9", "9", "9">>) }

MaxInsightExams == 3

InsightItems ==
    {Obj([subjects |-> Arr(<< Obj([id |-> Str(<<"s", "1">>),
                                   name |-> Str(<<"M", "a", "t", "h">>),
                                   exams |-> Arr(es)]) >>),
          activeSubjectId |-> Str(<<"s", "1">>)]) :
        es \in SeqsUpTo(InsightExamTexts, MaxInsightExams)}

InsightInit == (StorageHolds(InsightItems) /\ NormIdle /\ PayIdle) \/ RemoteInit

InsightNext == StorageNext \/ RemoteNext

SpecInsight == InsightInit /\ [][InsightNext]_vars

(***************************************************************************)
(* The local App loaded on a stored state that isValidAppState accepts and *)
(* in which two subjects have the same id.                                 *)
(***************************************************************************)
RepeatedSubjectId ==
    AppState(<< Subject(<<"s", "1">>, <<"M", "a", "t", "h">>,
                        << Exam(<<"e", "1">>, <<"P">>, Fin(1), Fin(2), Fin(3), Fin(50)) >>),
                Subject(<<"s", "1">>, <<"B", "i", "o">>, <<>>) >>,
             <<"s", "1">>)

FrameItems == LocalItems \cup {JSON_stringify(RepeatedSubjectId)}

FrameInit == StorageHolds(FrameItems) /\ NormIdle /\ PayIdle

SpecFrame == FrameInit /\ [][LocalNext]_vars

(***************************************************************************)
(* The subject form of the local variant (part_006).                       *)
(***************************************************************************)
\* names typed into the subject form
SubjectNameInputs == {<<" ">>, <<" ", "C", "h", "e", "m">>}

\* the buttons "Add subject" and "Cancel"
handleToggleSubjectForm ==
    /\ app \in {"local", "remote"}
    /\ ~dirty
    /\ app = "remote" => (FormsShown /\ confirmDialog = Null)
    /\ isAddingSubject' = ~isAddingSubject
    /\ newSubjectName' = <<>>
    /\ submitted' = NoSubmit
    /\ UNCHANGED <<app, lsItem, storedValue, rnd, dirty, lastActiveId, form, editingId, editForm,
                   confirmDialog, normVars, payVars, focusVars, remoteVars>>

\* the form is rendered while isAddingSubject is set
handleSubjectNameChange ==
    /\ app \in {"local", "remote"}
    /\ ~dirty
    /\ app = "remote" => (FormsShown /\ confirmDialog = Null)
    /\ isAddingSubject
    /\ newSubjectName' \in SubjectNameInputs
    /\ submitted' = NoSubmit
    /\ UNCHANGED <<app, lsItem, storedValue, rnd, dirty, lastActiveId, form, editingId, editForm,
                   isAddingSubject, confirmDialog, normVars, payVars, focusVars, remoteVars>>

\* the updater of handleCreateSubject
createSubject(current, subjectId, name) ==
    Obj([subjects |-> Arr(Append(Get(current, "subjects").a, Subject(subjectId, name, <<>>))),
         activeSubjectId |-> Str(subjectId)])

\* handleCreateSubject once updateState has normalized the previous value
CreateSubjectWith(name, base) ==
    IF name = <<>>
    THEN UNCHANGED <<storedValue, rnd, dirty, isAddingSubject, newSubjectName>>
    ELSE /\ updateState(base, createSubject(base.state, createId(S_subject, rnd), name))
         /\ newSubjectName' = <<>>
         /\ isAddingSubject' = FALSE

handleCreateSubject ==
    /\ app = "local"
    /\ ~dirty
    /\ isAddingSubject
    /\ rnd < MaxDraws
    /\ CreateSubjectWith(Trim(newSubjectName), normalizeStoredValue(storedValue, rnd + 1))
    /\ submitted' = NoSubmit
    /\ UNCHANGED <<app, lsItem, lastActiveId, form, editingId, editForm, confirmDialog,
                   normVars, payVars, focusVars, remoteVars>>

SubjectsNext_local ==
    \/ LocalNext
    \/ handleToggleSubjectForm
    \/ handleSubjectNameChange
    \/ handleCreateSubject

SpecSubjectsLocal == FrameInit /\ [][SubjectsNext_local]_vars

(***************************************************************************)
(* The subjects of the remote variant (part_007): selection, creation and  *)
(* deletion behind the confirm dialog. A call of handleCreateSubject or of *)
(* the dialog's onConfirm waits in calls at its request ("insert-subject", *)
(* "delete-subject"), then at the select of loadSubjects ("load").         *)
(***************************************************************************)
MaxSubjectCalls == 2

\* subjects created in one run
MaxCreated == 1

\* the page takes clicks: the forms are rendered and no dialog lies over them
PageTakesClicks == app = "remote" /\ FormsShown /\ confirmDialog = Null

handleSubjectSelect_remote ==
    /\ PageTakesClicks
    /\ \E i \in 1..Len(subjects) : activeSubjectId' = Get(subjects[i], "id")
    /\ FormsAfterLoad(FALSE)
    /\ submitted' = NoSubmit
    /\ UNCHANGED <<app, rnd, localOnlyVars, user, subjects, error, isLoading, db, calls,
                   subjectVars, normVars, payVars, focusVars>>

\* handleCreateSubject (remote) up to its await
SendCreateSubject(name) ==
    IF name = <<>>
    THEN UNCHANGED <<error, isLoading, calls>>
    ELSE IF ~Truthy(user)
    THEN /\ error' = ErrorMessage("You must be signed in to create a subject.")
         /\ isLoading' = FALSE
         /\ UNCHANGED calls
    ELSE /\ isLoading' = TRUE
         /\ calls' = Append(calls, Call("handleCreateSubject", "insert-subject", Str(name),
                                        Null, Null))
         /\ UNCHANGED error

handleCreateSubject_remote ==
    /\ PageTakesClicks
    /\ isAddingSubject
    /\ Len(calls) < MaxSubjectCalls
    /\ rnd < MaxCreated
    /\ SendCreateSubject(Trim(newSubjectName))
    /\ submitted' = NoSubmit
    /\ UNCHANGED <<app, rnd, form, editingId, editForm, localOnlyVars, user, subjects,
                   activeSubjectId, db, subjectVars, normVars, payVars, focusVars>>

\* disabled={!activeSubject || subjects.length <= 1}
DeleteSubjectEnabled == Truthy(activeSubject_remote) /\ Len(subjects) > 1

\* handleDeleteSubject: the dialog is set, its onConfirm holding the active
\* subject's id
handleDeleteSubject_remote ==
    /\ PageTakesClicks
    /\ DeleteSubjectEnabled
    /\ IF ~Truthy(user)
       THEN /\ error' = ErrorMessage("You must be signed in to delete a subject.")
            /\ UNCHANGED confirmDialog
       ELSE /\ confirmDialog' = Obj([subjectId |-> Get(activeSubject_remote, "id")])
            /\ UNCHANGED error
    /\ submitted' = NoSubmit
    /\ UNCHANGED <<app, rnd, form, editingId, editForm, localOnlyVars, user, subjects,
                   activeSubjectId, isLoading, db, calls, isAddingSubject, newSubjectName,
                   normVars, payVars, focusVars>>

\* the dialog's confirm button: onConfirm up to its await, then setConfirmDialog(null)
ConfirmDialog_onConfirm ==
    /\ app = "remote"
    /\ confirmDialog # Null
    /\ Len(calls) < MaxSubjectCalls
    /\ isLoading' = TRUE
    /\ calls' = Append(calls, Call("handleDeleteSubject", "delete-subject", Null,
                                   Get(confirmDialog, "subjectId"), Null))
    /\ confirmDialog' = Null
    /\ submitted' = NoSubmit
    /\ UNCHANGED <<app, rnd, form, editingId, editForm, localOnlyVars, user, subjects,
                   activeSubjectId, error, db, isAddingSubject, newSubjectName,
                   normVars, payVars, focusVars>>

\* the dialog's cancel button and its backdrop
ConfirmDialog_onCancel ==
    /\ app = "remote"
    /\ confirmDialog # Null
    /\ confirmDialog' = Null
    /\ submitted' = NoSubmit
    /\ UNCHANGED <<app, rnd, form, editingId, editForm, localOnlyVars, remoteVars,
                   isAddingSubject, newSubjectName, normVars, payVars, focusVars>>

\* the rows without the subject of the id: delete().eq("id", subjectId)
rowsWithout(rows, subjectId) == SelectSeq(rows, LAMBDA row : Get(row, "id") # subjectId)

\* the call once the backend has done its request; created is the id of the
\* inserted row (data?.id), null for a delete
SubjectRequestDone(call, created) ==
    Call(call.op, "subject-done", Null, created, Null)

\* the backend serves the insert or the delete of a subject, or the request fails
ServeSubjectRequest ==
    /\ app = "remote"
    /\ \E i \in 1..Len(calls) :
          \/ /\ calls[i].pc = "insert-subject"
             /\ rnd < MaxCreated
             /\ db' = Append(db, Subject(randomUUID(rnd), calls[i].payload.s, <<>>))
             /\ rnd' = rnd + 1
             /\ calls' = [calls EXCEPT ![i] = SubjectRequestDone(calls[i], Str(randomUUID(rnd)))]
          \/ /\ calls[i].pc = "delete-subject"
             /\ db' = rowsWithout(db, calls[i].subjectId)
             /\ calls' = [calls EXCEPT ![i] = SubjectRequestDone(calls[i], Null)]
             /\ UNCHANGED rnd
          \/ /\ calls[i].pc \in {"insert-subject", "delete-subject"}
             /\ calls' = [calls EXCEPT ![i] = Call(calls[i].op, "subject-failed", Null, Null, Null)]
             /\ UNCHANGED <<db, rnd>>
    /\ submitted' = NoSubmit
    /\ UNCHANGED <<app, form, editingId, editForm, localOnlyVars, user, subjects,
                   activeSubjectId, error, isLoading, subjectVars, normVars, payVars, focusVars>>

\* handleCreateSubject and onConfirm resume after their request: on an error
\* they return, else they close the subject form and call loadSubjects, which
\* runs up to its await
ResumeAfterSubjectRequest ==
    /\ app = "remote"
    /\ \E i \in 1..Len(calls) :
          \/ /\ calls[i].pc = "subject-failed"
             /\ error' = ErrorMessage("error.message")
             /\ isLoading' = FALSE
             /\ calls' = Finished(i)
             /\ UNCHANGED <<isAddingSubject, newSubjectName>>
          \/ /\ calls[i].pc = "subject-done"
             /\ newSubjectName' = <<>>
             /\ isAddingSubject' = FALSE
             /\ error' = Null
             /\ calls' = [calls EXCEPT ![i].pc = "load"]
             /\ UNCHANGED isLoading
    /\ submitted' = NoSubmit
    /\ UNCHANGED <<app, rnd, form, editingId, editForm, localOnlyVars, user, subjects,
                   activeSubjectId, db, confirmDialog, normVars, payVars, focusVars>>

\* the backend serves the select of loadSubjects, or the request fails
ServeLoad ==
    /\ app = "remote"
    /\ \E i \in 1..Len(calls) :
          /\ calls[i].pc = "load"
          /\ \/ calls' = [calls EXCEPT ![i].pc = "loaded", ![i].data = db]
             \/ calls' = [calls EXCEPT ![i].pc = "load-failed"]
    /\ submitted' = NoSubmit
    /\ UNCHANGED <<app, rnd, form, editingId, editForm, localOnlyVars, user, subjects,
                   activeSubjectId, error, isLoading, db, subjectVars, normVars, payVars,
                   focusVars>>

\* what the handler sets after await loadSubjects(): handleCreateSubject sets
\* setActiveSubjectId(data?.id ?? null), onConfirm nothing
activeAfterLoad(call, loaded) ==
    IF call.op = "handleCreateSubject" THEN call.subjectId ELSE loaded

\* loadSubjects resumes after its select, and then the handler that awaited it
ResumeAfterLoad ==
    /\ app = "remote"
    /\ \E i \in 1..Len(calls) :
          /\ \/ /\ calls[i].pc = "load-failed"
                /\ error' = ErrorMessage("error.message")
                /\ subjects' = <<>>
                /\ activeSubjectId' = activeAfterLoad(calls[i], activeSubjectId)
             \/ /\ calls[i].pc = "loaded"
                /\ subjects' = mapped(calls[i].data)
                /\ activeSubjectId' =
                       activeAfterLoad(calls[i], keptActiveSubjectId(activeSubjectId, subjects'))
                /\ UNCHANGED error
          /\ FormsAfterLoad(FALSE)
          /\ calls' = Finished(i)
    /\ isLoading' = FALSE
    /\ submitted' = NoSubmit
    /\ UNCHANGED <<app, rnd, localOnlyVars, user, db, subjectVars, normVars, payVars, focusVars>>

SubjectsNext_remote ==
    \/ handleSubjectSelect_remote
    \/ handleToggleSubjectForm
    \/ handleSubjectNameChange
    \/ handleCreateSubject_remote
    \/ handleDeleteSubject_remote
    \/ ConfirmDialog_onConfirm
    \/ ConfirmDialog_onCancel
    \/ ServeSubjectRequest
    \/ ResumeAfterSubjectRequest
    \/ ServeLoad
    \/ ResumeAfterLoad

SpecSubjects == RemoteInit /\ [][SubjectsNext_remote]_vars

(***************************************************************************)
(* Properties of the repair of stored values (C23 to C25).                 *)
(***************************************************************************)
HasSubjectsArray(value) == value.t = "obj" /\ IsArray(Get(value, "subjects"))

\* C23: for an object with a subjects array, the returned activeSubjectId is
\* the caller's activeSubjectId when that is the id of one of the subjects
\* that are returned, and the id of the first returned subject otherwise.
C23_ActiveSubjectResolved ==
    (Normalized /\ HasSubjectsArray(nValue)) =>
        LET given == Get(nValue, "activeSubjectId")
            listed == SubjectsOf(nResult.state)
        IN Get(nResult.state, "activeSubjectId") =
              IF \E i \in 1..Len(listed) : Get(listed[i], "id") = given
              THEN given
              ELSE Get(listed[1], "id")

\* C23 witness: a subjects array was repaired to two subjects, the first with
\* a generated id, and the caller's activeSubjectId, which names the second,
\* was kept
C23_Witness ==
    /\ nStage = "normalized"
    /\ ~nResult.same
    /\ HasSubjectsArray(nValue)
    /\ Get(nValue, "activeSubjectId") = Str(<<"s", "2">>)
    /\ Len(SubjectsOf(nResult.state)) = 2
    /\ Get(SubjectsOf(nResult.state)[1], "id") = Str(createId(S_subject, 0))
    /\ Get(SubjectsOf(nResult.state)[2], "id") = Str(<<"s", "2">>)
    /\ Get(nResult.state, "activeSubjectId") = Str(<<"s", "2">>)

\* what sanitizeSubject and sanitizeExam take for an object: a truthy value of
\* typeof "object", an array included
IsObjectElement(v) == v.t \in {"obj", "arr"}

ObjectElements(elements) == {i \in 1..Len(elements) : IsObjectElement(elements[i])}

\* the state is the default one: one subject named "Physics" that holds the
\* four example exams, and it is the active one
IsDefaultState(state) ==
    /\ Len(SubjectsOf(state)) = 1
    /\ Get(SubjectsOf(state)[1], "name") = Str(S_Physics)
    /\ ExamsOf(SubjectsOf(state)[1]) = DEFAULT_EXAMS
    /\ Len(DEFAULT_EXAMS) = 4
    /\ Get(state, "activeSubjectId") = Get(SubjectsOf(state)[1], "id")

\* C25: the subjects and exams returned are objects, never null: of a repaired
\* subjects array and of a repaired exams list exactly the object elements are
\* left. If no subject is left, or the value is neither an object with a
\* subjects array nor an array, the default state is returned. A bare array
\* gives one subject named "Physics" whose exams are made of the array's
\* object elements.
C25_DropsAndFallsBack ==
    (Normalized /\ ~nResult.same) =>
        LET listed == SubjectsOf(nResult.state) IN
        /\ \A i \in 1..Len(listed) :
              /\ listed[i].t = "obj"
              /\ \A a \in 1..Len(ExamsOf(listed[i])) : isValidExam(ExamsOf(listed[i])[a])
        /\ HasSubjectsArray(nValue) =>
              LET given == Get(nValue, "subjects").a IN
              IF ObjectElements(given) = {} THEN IsDefaultState(nResult.state)
              ELSE /\ Len(listed) = Cardinality(ObjectElements(given))
                   /\ (given[1].t = "obj" /\ IsArray(Get(given[1], "exams"))) =>
                         Len(ExamsOf(listed[1]))
                             = Cardinality(ObjectElements(Get(given[1], "exams").a))
        /\ IsArray(nValue) =>
              /\ Len(listed) = 1
              /\ Get(listed[1], "name") = Str(S_Physics)
              /\ Get(nResult.state, "activeSubjectId") = Get(listed[1], "id")
              /\ Len(ExamsOf(listed[1])) = Cardinality(ObjectElements(nValue.a))
        /\ (~HasSubjectsArray(nValue) /\ ~IsArray(nValue)) => IsDefaultState(nResult.state)

\* C25 witness: a bare array of two elements, one of them not an object, was
\* wrapped as the subject "Physics" with one exam
C25_Witness ==
    /\ nStage = "normalized"
    /\ IsArray(nValue)
    /\ Len(nValue.a) = 2
    /\ Cardinality(ObjectElements(nValue.a)) = 1
    /\ Len(SubjectsOf(nResult.state)) = 1
    /\ Get(SubjectsOf(nResult.state)[1], "name") = Str(S_Physics)
    /\ Len(ExamsOf(SubjectsOf(nResult.state)[1])) = 1

\* a render of the mounted App whose effects are still to run takes its step
EffectsRun == app = "local" /\ dirty /\ app' = "local"

\* C29: what normalizeStoredValue returns for the stored value satisfies
\* isValidAppState.  The reconcile effect writes only when the stored value is
\* not valid, what it writes is the normalized state, and normalizing that
\* returns the same object, so the render after a write writes nothing: at most
\* one corrective write, and then the stored value and the normalized state
\* are the same value.
C29_WriteBackConverges ==
    [][EffectsRun =>
          /\ isValidAppState(normalizeStoredValue(storedValue, rnd).state)
          /\ (storedValue' # storedValue) =>
                /\ ~isValidAppState(storedValue)
                /\ storedValue' = normalizeStoredValue(storedValue, rnd).state
                /\ normalizeStoredValue(storedValue', rnd').same
                /\ normalizeStoredValue(storedValue', rnd').state = storedValue'
          /\ isValidAppState(storedValue) => (storedValue' = storedValue /\ ~dirty')
          /\ dirty' => storedValue' # storedValue]_vars

\* C29 witness: the corrective write was done on a stored bare array: the state
\* hook holds a valid state while the storage still holds the array
C29_Witness ==
    /\ app = "local"
    /\ dirty
    /\ readValue(lsItem, Null).t = "arr"
    /\ isValidAppState(storedValue)
    /\ Get(SubjectsOf(storedValue)[1], "name") = Str(S_Physics)

(***************************************************************************)
(* sanitizeExam, seen on a stored bare array: the raw exam is the array's   *)
(* last element and the exam made of it is the last exam returned.         *)
(***************************************************************************)
RawExam == nValue.a[Len(nValue.a)]

RawIndex == Len(nValue.a) - 1

MadeExams == ExamsOf(SubjectsOf(nResult.state)[1])

MadeExam == MadeExams[Len(MadeExams)]

ExamSanitized == nStage = "normalized" /\ IsArray(nValue) /\ RawExam.t = "obj"

\* the field is not there (undefined or null)
Missing(raw, field) == Get(raw, field).t \in {"undef", "null"}

\* the field is there and its number is not finite
NonFinite(raw, field) == ~Missing(raw, field) /\ ~NumIsFinite(JsNumber(Get(raw, field)))

\* mcq and essay: 0 when missing or non-finite, the field's number otherwise
CountSanitized(raw, made, field) ==
    Get(made, field) = IF Missing(raw, field) \/ NonFinite(raw, field) THEN Num(Fin(0))
                       ELSE Num(JsNumber(Get(raw, field)))

\* completion: 0 when missing or non-finite, else the field's number brought
\* into [0,100]
CompletionSanitized(raw, made) ==
    LET given == JsNumber(Get(raw, "completion"))
        stored == Get(made, "completion").n
    IN  /\ stored.k = "fin"
        /\ 0 <= stored.v /\ stored.v <= 100
        /\ (Missing(raw, "completion") \/ NonFinite(raw, "completion")) => stored.v = 0
        /\ (~Missing(raw, "completion") /\ ~NonFinite(raw, "completion")) =>
              stored.v = (IF given.v > 100 THEN 100 ELSE IF given.v < 0 THEN 0 ELSE given.v)

\* paper: "Paper {index+1}" when blank or missing, the trimmed text otherwise
PaperSanitized(raw, made, index) ==
    Get(made, "paper") = IF IsNonBlankString(Get(raw, "paper")) THEN Str(Trim(Get(raw, "paper").s))
                         ELSE Str(S_Paper \o NatToString(index + 1))

\* id: kept when a non-blank string, else one drawn by createId("exam") that no
\* other returned exam has
IdSanitized(raw, made, others, draws) ==
    IF IsNonBlankString(Get(raw, "id")) THEN Get(made, "id") = Get(raw, "id")
    ELSE /\ \E k \in 0..(draws - 1) : Get(made, "id") = Str(createId(S_exam, k))
         /\ \A a \in 1..(Len(others) - 1) : Get(others[a], "id") # Get(made, "id")

SumOfSanitized(made) == Num(NumAdd(Get(made, "mcq").n, Get(made, "essay").n))

\* C24 as stated: a total that is there but not finite becomes 0, and only an
\* absent total becomes the sum of the sanitized mcq and essay
C24_NonFiniteFieldsAreZero ==
    ExamSanitized =>
        /\ CountSanitized(RawExam, MadeExam, "mcq")
        /\ CountSanitized(RawExam, MadeExam, "essay")
        /\ Missing(RawExam, "total") => Get(MadeExam, "total") = SumOfSanitized(MadeExam)
        /\ NonFinite(RawExam, "total") => Get(MadeExam, "total") = Num(Fin(0))
        /\ CompletionSanitized(RawExam, MadeExam)
        /\ PaperSanitized(RawExam, MadeExam, RawIndex)
        /\ IdSanitized(RawExam, MadeExam, MadeExams, nResult.n)

\* C24, amended: mcq, essay and completion that are missing or non-finite
\* become 0; a total that is missing or non-finite becomes the sum of the
\* sanitized mcq and essay, a finite total is kept; completion is brought into
\* [0,100]; a blank or missing paper becomes "Paper {index+1}"; a blank or
\* missing id becomes a freshly generated identifier.
C24_SanitizedExam ==
    ExamSanitized =>
        /\ CountSanitized(RawExam, MadeExam, "mcq")
        /\ CountSanitized(RawExam, MadeExam, "essay")
        /\ Get(MadeExam, "total") =
              IF Missing(RawExam, "total") \/ NonFinite(RawExam, "total")
              THEN SumOfSanitized(MadeExam)
              ELSE Num(JsNumber(Get(RawExam, "total")))
        /\ CompletionSanitized(RawExam, MadeExam)
        /\ PaperSanitized(RawExam, MadeExam, RawIndex)
        /\ IdSanitized(RawExam, MadeExam, MadeExams, nResult.n)

\* C24 witness: an exam at index 1 with a non-finite total, no paper, no id and
\* a completion above 100 was sanitized
C24_Witness ==
    /\ ExamSanitized
    /\ RawIndex = 1
    /\ Len(MadeExams) = 2
    /\ NonFinite(RawExam, "total")
    /\ Get(RawExam, "mcq") = Num(Fin(3))
    /\ Get(RawExam, "essay") = Num(Fin(4))
    /\ Get(RawExam, "completion") = Num(Fin(150))
    /\ Missing(RawExam, "paper")
    /\ Missing(RawExam, "id")
    /\ Get(MadeExam, "total") = Num(Fin(7))
    /\ Get(MadeExam, "completion") = Num(Fin(100))
    /\ Get(MadeExam, "paper") = Str(S_Paper \o <<"2">>)

(***************************************************************************)
(* Properties of the insight memo.                                         *)
(***************************************************************************)
TotalOf(exam) == Get(exam, "total").n

\* no exam of the list has a higher total than exam i
HasMaximalTotal(list, i) == \A j \in 1..Len(list) : NumLeq(TotalOf(list[j]), TotalOf(list[i]))

\* the first exam, in list order, among those of maximal total
FirstOfMaximalTotal(list) ==
    list[CHOOSE i \in 1..Len(list) :
            /\ HasMaximalTotal(list, i)
            /\ \A j \in 1..(i - 1) : ~HasMaximalTotal(list, j)]

\* completion brought into [0,100], as a whole number
ClampedValue(exam) ==
    LET given == Get(exam, "completion").n IN
    IF given.k = "inf" THEN (IF given.v = 1 THEN 100 ELSE 0)
    ELSE IF given.v > 100 THEN 100 ELSE IF given.v < 0 THEN 0 ELSE given.v

RECURSIVE ClampedTotal(_, _)
ClampedTotal(list, k) == IF k = 0 THEN 0 ELSE ClampedTotal(list, k - 1) + ClampedValue(list[k])

\* r is a whole number nearest to sum / count
NearestToMean(r, sum, count) == 2 * (r * count - sum) <= count /\ 2 * (sum - r * count) <= count

\* what the claim says of the memo computed for a list of exams
InsightAsClaimed(stats, list) ==
    IF Len(list) = 0
    THEN /\ stats.highestTotal = S_EmDash
         /\ stats.averageCompletion = S_EmDash
         /\ stats.highestTotalPaper = S_AddPaperTotals
         /\ stats.completionHint = S_AddPaperTrends
    ELSE /\ stats.highestTotalPaper = Get(FirstOfMaximalTotal(list), "paper").s
         /\ stats.highestTotal = toFixed3(TotalOf(FirstOfMaximalTotal(list)))
         /\ \E r \in 0..100 :
               /\ NearestToMean(r, ClampedTotal(list, Len(list)), Len(list))
               /\ stats.averageCompletion = NatToString(r) \o <<"%">>

\* C28: with no exams the memo holds the placeholders; otherwise its top exam is
\* the first exam in list order among those with the maximal total, and its
\* average is the mean over all exams of the completion clamped to [0,100],
\* rounded to the nearest integer.
C28_InsightStats ==
    /\ app = "local" => InsightAsClaimed(insightStats, exams)
    /\ app = "remote" => InsightAsClaimed(insightStats_remote, exams_remote)

\* C28 witness: three exams, the two of the highest total not first in the list,
\* completions above 100 among them; the memo names the first of the two
C28_Witness ==
    /\ app = "local"
    /\ ~dirty
    /\ Len(exams) = 3
    /\ ~HasMaximalTotal(exams, 1)
    /\ HasMaximalTotal(exams, 2)
    /\ HasMaximalTotal(exams, 3)
    /\ Get(exams[2], "paper") # Get(exams[3], "paper")
    /\ Get(exams[1], "completion") = Num(Fin(150))
    /\ insightStats.highestTotalPaper = Get(exams[2], "paper").s

(***************************************************************************)
(* The frame of the exam handlers of the local variant.                    *)
(***************************************************************************)
\* the position of the active subject in the list of a state
ActiveIndex(state) ==
    CHOOSE i \in 1..Len(SubjectsOf(state)) :
        /\ Get(SubjectsOf(state)[i], "id") = Get(state, "activeSubjectId")
        /\ \A j \in 1..(i - 1) : Get(SubjectsOf(state)[j], "id") # Get(state, "activeSubjectId")

\* the list without its k-th element
Without(list, k) == SubSeq(list, 1, k - 1) \o SubSeq(list, k + 1, Len(list))

\* a handler has passed a state with other subjects to setStoredValue
SubjectsSet == app = "local" /\ ~dirty /\ dirty' /\ SubjectsOf(storedValue') # SubjectsOf(storedValue)

ExamAdded == SubjectsSet /\ submitted'.op = "handleAddExam"

ExamUpdated == SubjectsSet /\ submitted'.op = "handleUpdateExam"

ExamDeleted == SubjectsSet /\ submitted'.op = "none"

\* from before to after only the exams of the active subject differ
OnlyActiveExamsDiffer(before, after) ==
    /\ Get(after, "activeSubjectId") = Get(before, "activeSubjectId")
    /\ Len(SubjectsOf(after)) = Len(SubjectsOf(before))
    /\ \A i \in 1..Len(SubjectsOf(before)) :
          IF i = ActiveIndex(before)
          THEN /\ Get(SubjectsOf(after)[i], "id") = Get(SubjectsOf(before)[i], "id")
               /\ Get(SubjectsOf(after)[i], "name") = Get(SubjectsOf(before)[i], "name")
          ELSE SubjectsOf(after)[i] = SubjectsOf(before)[i]

ActiveExams(state) == ExamsOf(SubjectsOf(state)[ActiveIndex(state)])

\* C30: add-exam, update-exam and delete-exam change only the exams of the
\* active subject: the other subjects, the order of the subjects and
\* activeSubjectId stay. Add puts the new exam first, update keeps the id and
\* the position of every exam and changes only the edited one, delete removes
\* one exam, the one with the given id.
C30_ExamHandlersFrame ==
    [][/\ (ExamAdded \/ ExamUpdated \/ ExamDeleted) =>
             OnlyActiveExamsDiffer(storedValue, storedValue')
       /\ ExamAdded =>
             /\ Len(ActiveExams(storedValue')) = Len(ActiveExams(storedValue)) + 1
             /\ Tail(ActiveExams(storedValue')) = ActiveExams(storedValue)
       /\ ExamUpdated =>
             /\ Len(ActiveExams(storedValue')) = Len(ActiveExams(storedValue))
             /\ \A a \in 1..Len(ActiveExams(storedValue)) :
                   /\ Get(ActiveExams(storedValue')[a], "id") = Get(ActiveExams(storedValue)[a], "id")
                   /\ Get(ActiveExams(storedValue)[a], "id") # editingId =>
                         ActiveExams(storedValue')[a] = ActiveExams(storedValue)[a]
       /\ ExamDeleted =>
             \E k \in 1..Len(ActiveExams(storedValue)) :
                 ActiveExams(storedValue') = Without(ActiveExams(storedValue), k)]_vars

(***************************************************************************)
(* The active subject of the local variant.                                *)
(***************************************************************************)
\* the listed subjects that have the state's activeSubjectId as their id
ActiveSubjects(state) ==
    {i \in 1..Len(SubjectsOf(state)) :
        Get(SubjectsOf(state)[i], "id") = Get(state, "activeSubjectId")}

IdsOf(state) == {Get(SubjectsOf(state)[i], "id") : i \in 1..Len(SubjectsOf(state))}

\* C22: whatever was stored and whichever exams and subjects were added, updated,
\* deleted or selected since, the state has at least one subject and its
\* activeSubjectId is the id of exactly one listed subject; a step that leaves
\* the subjects alone sets activeSubjectId to nothing but a listed id.
C22_ExactlyOneActiveSubject ==
    /\ [](app = "local" =>
             /\ Len(SubjectsOf(normalizedState)) >= 1
             /\ Cardinality(ActiveSubjects(normalizedState)) = 1)
    /\ [][(app = "local" /\ ~dirty /\ dirty'
              /\ SubjectsOf(storedValue') = SubjectsOf(storedValue)) =>
             Get(storedValue', "activeSubjectId") \in IdsOf(storedValue)]_vars

(***************************************************************************)
(* The skip of the remote variant (C26).                                   *)
(***************************************************************************)
\* call i of recordFocusSession was made by handleSkipSession and waits for the
\* answer to its insert
SkipAwaitsInsert(i) == focusCalls[i].op = "handleSkipSession" /\ focusCalls[i].pc = "insert"

\* the insert of call i is answered with the row stored
SkipInsertStored(i) ==
    SkipAwaitsInsert(i) /\ focusCalls' = [focusCalls EXCEPT ![i].pc = "select"]

\* the insert of call i is answered with an error: the call is over
SkipInsertFailed(i) == SkipAwaitsInsert(i) /\ focusCalls' = FinishedRecording(i)

\* handleSkipSession goes on after call i of recordFocusSession
SkipResumes(i) == focusCalls[i].op = "handleSkipSession" /\ focusCalls' = FinishedRecording(i)

\* one row of the full focus duration is appended to focus_entries
OneFullEntryAppended ==
    /\ Len(focusDb') = Len(focusDb) + 1
    /\ SubSeq(focusDb', 1, Len(focusDb)) = focusDb
    /\ Get(focusDb'[Len(focusDb')], "duration") = Num(Fin(1500))

\* the session type is the other one of before, at its full duration, stopped
ToggledFrom(type) ==
    /\ sessionType' = (IF type = "focus" THEN "break" ELSE "focus")
    /\ secondsLeft' = (IF type = "focus" THEN 300 ELSE 1500)
    /\ ~isRunning'

\* what skips do apart from the answer to the insert: a skip in a focus session
\* makes one call of recordFocusSession and stores nothing itself, a skip in a
\* break makes no call, stores nothing and toggles at once; handleSkipSession
\* toggles from focus when it goes on after its call
SkipCallsAndToggles ==
    /\ (sessionType = "focus" /\ handleSkipSession_remote) =>
          /\ Len(focusCalls') = Len(focusCalls) + 1
          /\ focusCalls'[Len(focusCalls')].op = "handleSkipSession"
          /\ focusCalls'[Len(focusCalls')].pc = "insert"
          /\ focusDb' = focusDb
    /\ (sessionType = "break" /\ handleSkipSession_remote) =>
          /\ Len(focusCalls') = Len(focusCalls)
          /\ focusDb' = focusDb
          /\ ToggledFrom("break")
    /\ \A i \in 1..Len(focusCalls) : SkipResumes(i) => (ToggledFrom("focus") /\ focusDb' = focusDb)

\* C26 as stated: a skip in a focus session appends exactly one entry of 1500
\* seconds, whatever the answer to its insert is
C26_SkipAlwaysRecords ==
    [][/\ SkipCallsAndToggles
       /\ \A i \in 1..Len(focusCalls) :
             (SkipInsertStored(i) \/ SkipInsertFailed(i)) => OneFullEntryAppended]_vars

\* C26, amended: handleSkipSession invoked during a focus session makes one
\* insert of a focus entry of the full focus duration (1500 s), whatever
\* secondsLeft is and whether or not the timer ever ran: exactly one entry is
\* appended when the insert succeeds, none when it fails. Invoked during a
\* break it appends none. In both cases the session type is then toggled,
\* secondsLeft becomes the new session's full duration and the timer is stopped.
C26_SkipRecordsOnSuccess ==
    [][/\ SkipCallsAndToggles
       /\ \A i \in 1..Len(focusCalls) :
             /\ SkipInsertStored(i) =>
                   (OneFullEntryAppended /\ UNCHANGED <<sessionType, secondsLeft, isRunning>>)
             /\ SkipInsertFailed(i) => (focusDb' = focusDb /\ error' # Null)]_vars

\* C26 witness: a skip made while the countdown of a focus session was running
\* has stored its entry and has not gone on yet
C26_Witness ==
    /\ app = "remote"
    /\ sessionType = "focus"
    /\ isRunning
    /\ secondsLeft < 1500
    /\ secondsLeft > 0
    /\ Len(focusCalls) = 1
    /\ focusCalls[1].op = "handleSkipSession"
    /\ focusCalls[1].pc = "select"
    /\ Len(focusDb) = 1
    /\ Get(focusDb[1], "duration") = Num(Fin(1500))

(***************************************************************************)
(* The subjects of the remote variant against the backend's rows.          *)
(***************************************************************************)
\* the backend holds a subject of the user
BackendHasSubject == app = "remote" /\ Len(db) >= 1

\* C21: at least one subject always remains (remote variant): once the user
\* has one or more subjects, no step of the page or of the backend (subject
\* selections, delete clicks, confirmations, served requests and reloads, in
\* any interleaving) leaves the backend without a subject.
C21_OneSubjectRemains ==
    [][BackendHasSubject => Len(db') >= 1]_vars

\* no request is in flight and no request has left an error message
SubjectsSettled == app = "remote" /\ calls = <<>> /\ error = Null

\* C27: reloads are safely repeatable (remote variant): however the responses
\* of the loads interleave with each other and with the mutations, once no
\* request is in flight and the last requests succeeded, the in-memory
\* subjects list is the backend's current rows.
C27_SettledSubjectsAreBackendRows ==
    SubjectsSettled => subjects = mapped(db)

====
